---- MODULE Spec2Model ----
(***************************************************************************)
(* Model of the transcription service: one authenticated client           *)
(* connection (handleWebSocketConnection), the TranscriptionSession       *)
(* objects it creates, and the LiveKit room / Deepgram connection /       *)
(* backend each session talks to.                                         *)
(*                                                                         *)
(* Concurrency is that of the Node.js event loop.  Every handler is an    *)
(* async function: it runs without interruption up to its next `await`,   *)
(* and is resumed later.  An action below is one such uninterrupted run.  *)
(* A task record is one handler invocation suspended at an await; its pc  *)
(* names the await.  Continuations of already settled promises            *)
(* (microtasks) run before the event loop delivers the next network or    *)
(* timer event, so those events are disabled while a microtask is         *)
(* pending; client frames that arrive in one chunk are emitted by the     *)
(* socket back to back and may be handled while microtasks are pending.   *)
(***************************************************************************)
EXTENDS Integers, Sequences, FiniteSets, TLC

\* ---- bounds of the model ------------------------------------------------
MaxMsgs == 3        \* control messages received on the connection
MaxSegments == 1    \* final recognition events with words a session accumulates

\* ---- inputs ---------------------------------------------------------------
\* claims the token gate attached to the socket (server.ts upgrade handler)
TokenRoom == "r1"
TokenIdentity == "p1"
RoomNames == {"r1", "r2"}
Identities == {"p1", "p2"}

Null == -1

\* words are timestamped in milliseconds (0.3 s is 300)
W1 == [word |-> "um", start |-> 300, end |-> 500]
\* recognition events as handleTranscript sees them:
\*   transcript = data.channel.alternatives[0].transcript, words, is_final
TranscriptEvents ==
    { [transcript |-> "um", is_final |-> TRUE,  words |-> <<W1>>],
      [transcript |-> "um", is_final |-> FALSE, words |-> <<W1>>],
      [transcript |-> "uh", is_final |-> TRUE,  words |-> << >>],
      [transcript |-> "",   is_final |-> TRUE,  words |-> << >>] }

\* words of a longer interview, in the order of their start
WordI == [word |-> "I", start |-> 0, end |-> 200]
WordWell == [word |-> "well", start |-> 1700, end |-> 1900]
WordLike == [word |-> "like", start |-> 1704, end |-> 2004]
WordThink == [word |-> "think", start |-> 1900, end |-> 2100]
WordSo == [word |-> "so", start |-> 3100, end |-> 3300]
WordNow == [word |-> "now", start |-> 29800, end |-> 30200]
WordYes == [word |-> "yes", start |-> 30000, end |-> 30000]
WordRight == [word |-> "right", start |-> 61000, end |-> 61700]
InterviewWords ==
    {WordI, W1, WordWell, WordLike, WordThink, WordSo, WordNow, WordYes, WordRight}

\* recognition events of a longer interview: the events above, a final event
\* for each word, and a final event of two words
InterviewEvents ==
    TranscriptEvents
    \cup { [transcript |-> w.word, is_final |-> TRUE, words |-> <<w>>] :
             w \in InterviewWords }
    \cup { [transcript |-> "I um", is_final |-> TRUE, words |-> <<WordI, W1>>] }

\* words a session accumulates in the interview
MaxWords == 3

VARIABLES
    ws,        \* readyState of the client socket: "open", "closing", "closed"
               \* ("none" while the connection is not upgraded)
    session,   \* the handler's `session` variable: 0 is null, else a session id
    sess,      \* sess[s]: fields of the s-th TranscriptionSession constructed
    room,      \* room[s]: state of the rtc.Room object session s created
    dg,        \* dg[s]: state of the Deepgram live connection session s created
    obs,       \* obs[s]: calls made on behalf of session s (history)
    tasks,     \* handler invocations suspended at an await
    nmsg,      \* number of control messages received
    last,      \* the control message or recognition event the latest step
               \* received, if it received one
    out,       \* the messages the latest step delivered to the client, in order
    posted,    \* the request bodies the latest step posted to the backend
    gate,      \* the upgrade request of the connection and what became of it
    audio,     \* the tracks the rooms announced (TrackSubscribed), and those
               \* with a running handleAudioTrack loop, as <<session, track>>
    peer       \* a second connection: its handler's `session` variable, its
               \* socket and the sessions it constructed

vars == <<ws, session, sess, room, dg, obs, tasks, nmsg, last, out, posted, gate,
          audio, peer>>

\* no track announced; no second connection
NoAudio == [subscribed |-> {}, loops |-> {}]
NoPeer == [ws |-> "none", session |-> 0, owned |-> {}]

\* ---- TranscriptionSession fields -----------------------------------------
\* room and dgConnection are TRUE when the field holds a reference, FALSE when
\* it is null.
NewSession(rn, pi) ==
    [ roomName |-> rn, participantIdentity |-> pi,
      room |-> FALSE, dgConnection |-> FALSE, sessionActive |-> FALSE,
      allWords |-> << >>, segments |-> << >>,
      startTime |-> Null, endTime |-> Null ]

\* history of the calls made on behalf of one session
NewObs ==
    [ requestClose |-> 0,      \* dgConnection.requestClose() calls
      disconnect |-> 0,        \* room.disconnect() calls
      summaries |-> 0,         \* generateSummary() calls
      posts |-> 0,             \* axios.post requests
      settled |-> FALSE,       \* nothing touched the session since a cleanup() returned
      propagated |-> FALSE,    \* a cleanup() call threw to its caller
      stopActed |-> FALSE,     \* a "stop" called cleanup() on the session
      completeActed |-> FALSE, \* a "complete" called completeSession() on it
      tornStarting |-> FALSE,  \* stop / close tore it down while start() was awaiting
      finals |-> << >>,        \* texts of the final events with words that arrived
      backendFailed |-> FALSE  \* an axios.post for the session was rejected
    ]

Sessions == 1..Len(sess)

\* ---- tasks -----------------------------------------------------------------
\* kind: "start", "stop", "complete" (message handlers), "close" (the socket's
\* close handler), "lkdisc" (the room's Disconnected handler).
\* pc:   "jwt"       start(): awaiting token.toJwt()
\*       "connect"   start(): awaiting room.connect()
\*       "start_ret" message handler: awaiting the settled session.start()
\*       "post"      completeSession(): awaiting axios.post
\*       "completed" message handler: awaiting the settled completeSession()
\*       "disc_wait" cleanup(): awaiting room.disconnect() of a connected room
\*       "disc_now"  cleanup(): awaiting room.disconnect() of a room that is
\*                   not connected: the call has nothing to wait for, so
\*                   cleanup() resumes before room.connect() can settle
\*       "cleaned"   caller: awaiting the settled cleanup()
MicroPcs == {"start_ret", "completed", "disc_now", "cleaned"}
CleanupPcs == {"disc_wait", "disc_now", "cleaned"}
ControlKinds == {"start", "stop", "complete"}

Task(id, kind, pc, sid) ==
    [ id |-> id, kind |-> kind, pc |-> pc, sid |-> sid,
      empty |-> FALSE,   \* completeSession() found no words
      held |-> {},       \* resources the session held when cleanup() was called
      failed |-> {},     \* close operations that threw inside this cleanup();
                         \* "post" after a rejected axios.post
      repeat |-> FALSE ] \* cleanup() was called right after a cleanup() returned

MicroPending == \E t \in tasks : t.pc \in MicroPcs

\* a network, timer or library event can be delivered
EventLoopTurn == ~MicroPending

\* ---- messages ---------------------------------------------------------------
Msg(type, message) == [type |-> type, message |-> message]

NoMsg == [action |-> "none", roomName |-> "", participantIdentity |-> ""]
StopMsg == [action |-> "stop", roomName |-> "", participantIdentity |-> ""]
CompleteMsg == [action |-> "complete", roomName |-> "", participantIdentity |-> ""]

\* sendToClient / ws.send: delivered only while the socket is OPEN
sendToClient(ms) == IF ws = "open" THEN ms ELSE << >>

\* a control message can be received
CanReceive == ws \in {"open", "closing"} /\ nmsg < MaxMsgs

\* ---- the start message's checks (handler, start branch) -----------------
\* startCheck without the comparison of participantIdentity with the token
startCheckRoomOnly(rn, pi) ==
    IF rn # TokenRoom THEN "Unauthorized: roomName does not match token"
    ELSE IF rn = "" \/ pi = "" THEN "Missing roomName or participantIdentity"
    ELSE "ok"

\* "ok", or the reason the message is refused
startCheck(rn, pi) ==
    IF rn # TokenRoom THEN "Unauthorized: roomName does not match token"
    ELSE IF pi # TokenIdentity
         THEN "Unauthorized: participantIdentity does not match token"
    ELSE IF rn = "" \/ pi = "" THEN "Missing roomName or participantIdentity"
    ELSE "ok"

Unauthorized(reason) ==
    reason \in { "Unauthorized: roomName does not match token",
                 "Unauthorized: participantIdentity does not match token" }

\* ---- TranscriptionSession.cleanup ------------------------------------------
\* cleanup() that leaves this.dgConnection set after requestClose()
cleanupKeepsDg(c, dgThrows) ==
    [ sess |-> [c EXCEPT !.sessionActive = FALSE],
      requestClose |-> c.dgConnection,
      disconnect |-> c.room,
      threw |-> FALSE ]

\* cleanup() without the try / catch around requestClose(): a throw leaves
\* the function before the field is nulled and the room is disconnected
cleanupNoCatch(c, dgThrows) ==
    IF c.dgConnection /\ dgThrows
    THEN [ sess |-> [c EXCEPT !.sessionActive = FALSE],
           requestClose |-> TRUE, disconnect |-> FALSE, threw |-> TRUE ]
    ELSE [ sess |-> [c EXCEPT !.sessionActive = FALSE, !.dgConnection = FALSE],
           requestClose |-> c.dgConnection, disconnect |-> c.room, threw |-> FALSE ]

\* The part of cleanup() that runs when it is called, up to its await:
\* sessionActive is cleared, requestClose() is called on a held Deepgram
\* connection (a throw is caught) and the field is nulled, disconnect() is
\* called on a held room.  threw: the call rejects to its caller.
cleanup(c, dgThrows) ==
    [ sess |-> [c EXCEPT !.sessionActive = FALSE, !.dgConnection = FALSE],
      requestClose |-> c.dgConnection,
      disconnect |-> c.room,
      threw |-> FALSE ]

\* The part of cleanup() after `await this.room.disconnect()`: a throw is
\* caught and the field is nulled.
cleanupResume(c, discThrows) ==
    [ sess |-> [c EXCEPT !.room = FALSE], threw |-> FALSE ]

\* outcomes of the close operation of a resource the session holds
ThrowChoices(held) == IF held THEN BOOLEAN ELSE {FALSE}

\* start(s) is suspended inside connectToLiveKit
Starting(s) ==
    \E t \in tasks : t.kind = "start" /\ t.sid = s /\ t.pc \in {"jwt", "connect"}

\* Deepgram connection after requestClose(): one that never opened is gone,
\* an open one flushes its pending results before it closes
DgAfterRequestClose(st) ==
    IF st = "open" THEN "closing"
    ELSE IF st = "connecting" THEN "closed" ELSE st

\* A call of cleanup() on session s by task tk (which replaces old in tasks),
\* with room0 the room states and ms the client messages so far in this run.
CallCleanup(old, tk, s, dgThrows, room0, ms) ==
    LET r == cleanup(sess[s], dgThrows)
        waits == room0[s] \in {"connected", "closing"}
        pc == IF r.disconnect
              THEN (IF waits THEN "disc_wait" ELSE "disc_now")
              ELSE "cleaned"
        nt == [tk EXCEPT !.pc = pc, !.sid = s,
                 !.held = (IF sess[s].dgConnection THEN {"dg"} ELSE {})
                          \cup (IF sess[s].room THEN {"room"} ELSE {}),
                 !.failed = IF r.requestClose /\ dgThrows THEN {"dg"} ELSE {},
                 !.repeat = obs[s].settled]
    IN
    /\ sess' = [sess EXCEPT ![s] = r.sess]
    /\ dg' = [dg EXCEPT ![s] = IF r.requestClose /\ ~dgThrows
                                THEN DgAfterRequestClose(@) ELSE @]
    /\ room' = [room0 EXCEPT ![s] = IF r.disconnect /\ ~r.threw /\ @ = "connected"
                                     THEN "closing" ELSE @]
    /\ obs' = [obs EXCEPT
                 ![s].requestClose = @ + (IF r.requestClose THEN 1 ELSE 0),
                 ![s].disconnect = @ + (IF r.disconnect /\ ~r.threw THEN 1 ELSE 0),
                 ![s].settled = (pc = "cleaned" /\ ~r.threw),
                 ![s].propagated = @ \/ r.threw,
                 ![s].stopActed = @ \/ tk.kind = "stop",
                 ![s].tornStarting = @ \/ (tk.kind \in {"stop", "close"} /\ Starting(s))]
    /\ IF r.threw
       THEN \* the rejection reaches the message handler's catch, which
            \* reports it; in an event handler it is an unhandled rejection
            /\ tasks' = tasks \ {old}
            /\ out' = sendToClient(IF tk.kind \in ControlKinds
                                   THEN Append(ms, Msg("error", "requestClose failed"))
                                   ELSE ms)
       ELSE /\ tasks' = (tasks \ {old}) \cup {nt}
            /\ out' = sendToClient(ms)

\* ---- "start" ---------------------------------------------------------------
\* The message handler up to the first await of start(): the checks, then
\* `session = new TranscriptionSession(...)`, and connectToLiveKit up to
\* `await token.toJwt()` (this.room = new rtc.Room(), handlers registered).
RecvStart(rn, pi) ==
    /\ CanReceive
    /\ nmsg' = nmsg + 1
    /\ last' = [action |-> "start", roomName |-> rn, participantIdentity |-> pi]
    /\ posted' = << >>
    /\ UNCHANGED <<gate, audio, peer>>
    /\ LET chk == startCheck(rn, pi) IN
       IF chk # "ok"
       THEN /\ out' = sendToClient(<< Msg("error", chk) >>)
            /\ ws' = IF Unauthorized(chk) THEN "closing" ELSE ws
            /\ UNCHANGED <<session, sess, room, dg, obs, tasks>>
       ELSE /\ sess' = Append(sess, [NewSession(rn, pi) EXCEPT !.room = TRUE])
            /\ room' = Append(room, "new")
            /\ dg' = Append(dg, "none")
            /\ obs' = Append(obs, NewObs)
            /\ session' = Len(sess) + 1
            /\ tasks' = tasks \cup {Task(nmsg + 1, "start", "jwt", Len(sess) + 1)}
            /\ out' = << >>
            /\ UNCHANGED ws

\* start()'s catch block: the error is reported, then `await this.cleanup()`
StartFailed(t, room0, reason) ==
    /\ \E dgThrows \in ThrowChoices(sess[t.sid].dgConnection) :
          CallCleanup(t, t, t.sid, dgThrows, room0, << Msg("error", reason) >>)
    /\ last' = NoMsg
    /\ posted' = << >>
    /\ UNCHANGED <<gate, audio, peer>>
    /\ UNCHANGED <<ws, session, nmsg>>

\* token.toJwt() resolved: connectToLiveKit calls this.room.connect(...)
StartTokenReady(t) ==
    /\ EventLoopTurn
    /\ t \in tasks /\ t.kind = "start" /\ t.pc = "jwt"
    /\ IF sess[t.sid].room
       THEN /\ room' = [room EXCEPT ![t.sid] = "connecting"]
            /\ tasks' = (tasks \ {t}) \cup {[t EXCEPT !.pc = "connect"]}
            /\ out' = << >>
            /\ last' = NoMsg
            /\ posted' = << >>
            /\ UNCHANGED <<gate, audio, peer>>
            /\ UNCHANGED <<ws, session, sess, dg, obs, nmsg>>
       ELSE \* this.room was nulled meanwhile: TypeError inside the try
            StartFailed(t, room, "Cannot read properties of null")

ConnectOutcomes == {"ok", "connect_fails", "deepgram_fails"}

\* room.connect() settled.  On success start() creates the Deepgram
\* connection, registers its Open handler and sets sessionActive.
ConnectDone(t, outcome) ==
    /\ EventLoopTurn
    /\ t \in tasks /\ t.kind = "start" /\ t.pc = "connect"
    /\ LET s == t.sid IN
       CASE outcome = "ok" ->
              /\ room' = [room EXCEPT ![s] = "connected"]
              /\ sess' = [sess EXCEPT ![s].dgConnection = TRUE,
                                      ![s].sessionActive = TRUE]
              /\ dg' = [dg EXCEPT ![s] = "connecting"]
              /\ obs' = [obs EXCEPT ![s].settled = FALSE]
              /\ tasks' = (tasks \ {t}) \cup {[t EXCEPT !.pc = "start_ret"]}
              /\ out' = << >>
              /\ last' = NoMsg
              /\ posted' = << >>
              /\ UNCHANGED <<gate, audio, peer>>
              /\ UNCHANGED <<ws, session, nmsg>>
         [] outcome = "connect_fails" ->
              StartFailed(t, [room EXCEPT ![s] = "closed"], "LiveKit connection failed")
         [] outcome = "deepgram_fails" ->
              StartFailed(t, [room EXCEPT ![s] = "connected"], "Deepgram client failed")

\* `await session.start()` resumes after a successful start()
StartReturn(t) ==
    /\ t \in tasks /\ t.kind = "start" /\ t.pc = "start_ret"
    /\ out' = sendToClient(<< Msg("started", "Transcription session started") >>)
    /\ tasks' = tasks \ {t}
    /\ last' = NoMsg
    /\ posted' = << >>
    /\ UNCHANGED <<gate, audio, peer>>
    /\ UNCHANGED <<ws, session, sess, room, dg, obs, nmsg>>

\* ---- "stop" ----------------------------------------------------------------
\* The message handler up to `await session.cleanup()`; with no session it
\* answers at once.
RecvStop ==
    /\ CanReceive
    /\ nmsg' = nmsg + 1
    /\ last' = StopMsg
    /\ posted' = << >>
    /\ UNCHANGED <<gate, audio, peer>>
    /\ IF session # 0
       THEN \E dgThrows \in ThrowChoices(sess[session].dgConnection) :
               LET tk == Task(nmsg + 1, "stop", "cleaned", session) IN
               CallCleanup(tk, tk, session, dgThrows, room, << >>)
       ELSE /\ out' = sendToClient(<< Msg("stopped", "Transcription session stopped") >>)
            /\ UNCHANGED <<sess, room, dg, obs, tasks>>
    /\ UNCHANGED <<ws, session>>

\* ---- speech analysis (generateSummary and what it calls) ---------------------
\* Timestamps are decimal seconds; the model counts them in milliseconds.
PAUSE_THRESHOLD == 1200
PACE_SEGMENT_INTERVAL == 30000

\* parseFloat(x.toFixed(2)) of a time x >= 0: the nearest hundredth of a second
toFixed2(x) == ((x + 5) \div 10) * 10

\* the quotient cut to its integer part
MathTrunc(p, q) == p \div q

\* Math.round(p / q) for p >= 0, q > 0
MathRound(p, q) == (2 * p + q) \div (2 * q)

\* `start - end` is a subtraction of doubles.  Its result is the decimal
\* difference up to the rounding of the operands; that matters only to a
\* comparison with a value the decimal difference equals.  For these <<end,
\* start>> the double difference lies above the double 1.2 (for <<1.9, 3.1>>
\* it is 1.2000000000000002), for the model's other timestamps it does not.
DoubleAbove == { <<1900, 3100>> }

\* detectPauses, from the pair of words (i - 1, i) on (the loop starts at
\* the second word)
RECURSIVE detectPauses(_, _)
detectPauses(words, i) ==
    IF i > Len(words) THEN << >>
    ELSE LET gap == words[i].start - words[i - 1].end
             exceeds == \/ gap > PAUSE_THRESHOLD
                        \/ /\ gap = PAUSE_THRESHOLD
                           /\ <<words[i - 1].end, words[i].start>> \in DoubleAbove
         IN
         (IF exceeds
          THEN << [duration |-> toFixed2(gap),
                   timestamp |-> toFixed2(words[i - 1].end)] >>
          ELSE << >>) \o detectPauses(words, i + 1)

\* the words of the window: `w.start >= segStart && w.end <= segEnd`
segWords(c, segStart) ==
    SelectSeq(c.allWords,
              LAMBDA w : w.start >= segStart /\ w.end <= segStart + PACE_SEGMENT_INTERVAL)

\* the point calculatePaceTimeline pushes for a window with words
pacePoint(sw, segStart) ==
    LET segDuration == sw[Len(sw)].end - sw[1].start IN
    [ timestamp |-> segStart,
      wpm |-> IF segDuration > 0 THEN MathRound(Len(sw) * 60000, segDuration) ELSE 0,
      segmentStart |-> segStart,
      segmentEnd |-> segStart + PACE_SEGMENT_INTERVAL ]

\* calculatePaceTimeline that pushes a zero point for a window without words
RECURSIVE calculatePaceTimelineZeroFilled(_, _)
calculatePaceTimelineZeroFilled(c, t) ==
    IF t >= c.endTime - c.startTime THEN << >>
    ELSE LET segStart == c.startTime + t
             sw == segWords(c, segStart)
         IN
         (IF Len(sw) > 0 THEN << pacePoint(sw, segStart) >>
          ELSE << [timestamp |-> segStart, wpm |-> 0, segmentStart |-> segStart,
                   segmentEnd |-> segStart + PACE_SEGMENT_INTERVAL] >>)
         \o calculatePaceTimelineZeroFilled(c, t + PACE_SEGMENT_INTERVAL)

\* calculatePaceTimeline, from offset t on (the loop starts at t = 0)
RECURSIVE calculatePaceTimeline(_, _)
calculatePaceTimeline(c, t) ==
    IF t >= c.endTime - c.startTime THEN << >>
    ELSE LET segStart == c.startTime + t
             sw == segWords(c, segStart)
         IN
         (IF Len(sw) > 0 THEN << pacePoint(sw, segStart) >> ELSE << >>)
         \o calculatePaceTimeline(c, t + PACE_SEGMENT_INTERVAL)

\* ---- filler words (constants/speech.ts, detectFillers) -----------------------
\* Strings are sequences of characters: Head, Tail, SubSeq and \o act on
\* them character by character.
UpperCase == "ABCDEFGHIJKLMNOPQRSTUVWXYZ"
LowerCase == "abcdefghijklmnopqrstuvwxyz"
Digits == "0123456789"
\* \s; the tokens of the model contain no other white space than the blank
WhiteSpace == " "

\* position of the character ch in s from position i on, 0 when it is absent
RECURSIVE IndexOf(_, _, _)
IndexOf(ch, s, i) ==
    IF i > Len(s) THEN 0
    ELSE IF SubSeq(s, i, i) = ch THEN i ELSE IndexOf(ch, s, i + 1)

CharIn(ch, s) == IndexOf(ch, s, 1) # 0

\* String.prototype.toLowerCase
RECURSIVE toLowerCase(_)
toLowerCase(s) ==
    IF s = "" THEN ""
    ELSE LET k == IndexOf(Head(s), UpperCase, 1) IN
         (IF k = 0 THEN Head(s) ELSE SubSeq(LowerCase, k, k)) \o toLowerCase(Tail(s))

\* .replace(/[^a-z0-9\s']/g, '')
RECURSIVE removePunctuation(_)
removePunctuation(s) ==
    IF s = "" THEN ""
    ELSE (IF CharIn(Head(s), LowerCase \o Digits \o WhiteSpace \o "'")
          THEN Head(s) ELSE "") \o removePunctuation(Tail(s))

\* .replace(/(.)\1+/g, '$1')
RECURSIVE collapseRepeated(_)
collapseRepeated(s) ==
    IF Len(s) <= 1 THEN s
    ELSE IF Head(s) = Head(Tail(s)) THEN collapseRepeated(Tail(s))
    ELSE Head(s) \o collapseRepeated(Tail(s))

\* .replace(/\s+/g, ' ')
RECURSIVE collapseSpaces(_)
collapseSpaces(s) ==
    IF s = "" THEN ""
    ELSE IF CharIn(Head(s), WhiteSpace)
    THEN IF Len(s) > 1 /\ CharIn(Head(Tail(s)), WhiteSpace)
         THEN collapseSpaces(Tail(s))
         ELSE " " \o collapseSpaces(Tail(s))
    ELSE Head(s) \o collapseSpaces(Tail(s))

\* .trim()
RECURSIVE trim(_)
trim(s) ==
    IF s = "" THEN ""
    ELSE IF CharIn(Head(s), WhiteSpace) THEN trim(Tail(s))
    ELSE IF CharIn(SubSeq(s, Len(s), Len(s)), WhiteSpace)
    THEN trim(SubSeq(s, 1, Len(s) - 1))
    ELSE s

\* normalizeToken that keeps repeated characters
normalizeTokenKeepsRepeats(token) ==
    trim(collapseSpaces(removePunctuation(toLowerCase(token))))

normalizeToken(token) ==
    trim(collapseSpaces(collapseRepeated(removePunctuation(toLowerCase(token)))))

\* clean.split(' ')
RECURSIVE split(_)
split(s) ==
    LET k == IndexOf(" ", s, 1) IN
    IF k = 0 THEN << s >>
    ELSE << SubSeq(s, 1, k - 1) >> \o split(SubSeq(s, k + 1, Len(s)))

\* strs.join(" ")
RECURSIVE join(_)
join(strs) ==
    IF Len(strs) = 0 THEN ""
    ELSE IF Len(strs) = 1 THEN strs[1]
    ELSE strs[1] \o " " \o join(Tail(strs))

FILLER_WORDS == {
    "um", "uh", "erm", "er", "ah", "oh", "mm", "mhmm", "mhm", "uh-huh",
    "uhuh", "uh-uh", "huh", "eh", "umm", "ummm", "uhh", "uhhh", "ermm",
    "ahh", "ohh", "mmm", "like", "so", "well", "anyway", "anyhow", "anywho",
    "alright", "okay", "ok", "right", "righto", "alrighty", "you know",
    "y'know", "you know what I mean", "you see", "you get me",
    "if you know what I mean", "you know what I'm saying", "kind of",
    "kinda", "sort of", "sorta", "ish", "maybe", "perhaps", "I guess",
    "I suppose", "I reckon", "I think", "I feel", "I feel like", "I mean",
    "I dunno", "dunno", "I believe", "I assume", "actually", "basically",
    "literally", "seriously", "honestly", "frankly", "really", "definitely",
    "truly", "genuinely", "right?", "okay?", "you know?", "see?", "you see?",
    "okay so", "so yeah", "so anyway", "so then", "and then", "and so",
    "for what it's worth", "to be honest", "to be fair", "if I'm honest",
    "not gonna lie", "no cap", "let's be real", "at the end of the day",
    "in the end", "that being said", "having said that",
    "all that being said", "for the most part", "as I said", "like I said",
    "as I mentioned", "if that makes sense", "if that makes any sense",
    "if that helps", "you know what I mean?", "and stuff", "and things",
    "and all that", "and all that jazz", "and all that stuff",
    "and so forth", "and so on", "and whatnot", "or something",
    "or whatever", "or something like that", "or so", "or the like", "look",
    "listen", "okay look", "well look", "now", "now listen", "right now",
    "anyways", "yeah", "yep", "yup", "mm-hmm", "nope", "nah", "ah-ha", "aha",
    "wow", "oh wow", "gonna", "wanna", "gotta", "lemme", "lemme see",
    "lemme think", "kinda like", "sort of like", "so yeah no", "so yeah but",
    "so anyway yeah", "anyway yeah", "anyway so", "moving on", "back to",
    "to be clear", "to be honest with you", "to tell the truth",
    "believe me", "honestly though", "innit", "yeah yeah", "yer", "ya know",
    "y'all", "mate", "well then", "well yeah", "like I said before",
    "as I was saying", "that sort of thing", "that kind of thing",
    "if you will", "if you like", "so to speak", "I mean like",
    "I mean you know", "um...", "uh...", "erm...", "ah...", "oh...",
    "mmm...", "hmm" }

\* new Set(FILLER_WORDS.map(w => w.toLowerCase()))
FILLER_SET == {toLowerCase(w) : w \in FILLER_WORDS}

isFillerWord(token) ==
    LET clean == normalizeToken(token)
        parts == split(clean)
    IN \/ clean \in FILLER_SET
       \/ \E i \in 1..Len(parts), j \in 1..Len(parts) :
             i <= j /\ join(SubSeq(parts, i, j)) \in FILLER_SET

CONTEXT_WORDS_COUNT == 5

wordsOf(words, a, b) == [k \in 1..(b - a + 1) |-> words[a + k - 1].word]

\* the event detectFillers returns for the word at (1-based) position i
fillerAt(words, i) ==
    LET start == IF i - CONTEXT_WORDS_COUNT > 1 THEN i - CONTEXT_WORDS_COUNT ELSE 1
        end == IF i + CONTEXT_WORDS_COUNT < Len(words)
               THEN i + CONTEXT_WORDS_COUNT ELSE Len(words)
    IN [ word |-> words[i].word,
         timestamp |-> words[i].start,
         contextBefore |-> join(wordsOf(words, start, i - 1)),
         contextAfter |-> join(wordsOf(words, i + 1, end)) ]

\* detectFillers whose context is not clipped to CONTEXT_WORDS_COUNT words
RECURSIVE detectFillersWholeContext(_, _)
detectFillersWholeContext(words, i) ==
    IF i > Len(words) THEN << >>
    ELSE (IF isFillerWord(words[i].word)
          THEN << [ word |-> words[i].word,
                    timestamp |-> words[i].start,
                    contextBefore |-> join(wordsOf(words, 1, i - 1)),
                    contextAfter |-> join(wordsOf(words, i + 1, Len(words))) ] >>
          ELSE << >>) \o detectFillersWholeContext(words, i + 1)

\* detectFillers, from the word at position i on (the map starts at the first)
RECURSIVE detectFillers(_, _)
detectFillers(words, i) ==
    IF i > Len(words) THEN << >>
    ELSE (IF isFillerWord(words[i].word) THEN << fillerAt(words, i) >> ELSE << >>)
         \o detectFillers(words, i + 1)

\* a join that leaves out the last segment
RECURSIVE joinTextsDropsLast(_)
joinTextsDropsLast(segs) ==
    IF Len(segs) <= 1 THEN ""
    ELSE IF Len(segs) = 2 THEN segs[1].text
    ELSE segs[1].text \o " " \o joinTextsDropsLast(Tail(segs))

\* this.segments.map((s) => s.text).join(" ")
RECURSIVE joinTexts(_)
joinTexts(segs) ==
    IF Len(segs) = 0 THEN ""
    ELSE IF Len(segs) = 1 THEN segs[1].text
    ELSE segs[1].text \o " " \o joinTexts(Tail(segs))

\* generateSummary that divides by the duration it reports (two decimals)
generateSummaryPaceOfReportedDuration(c) ==
    LET duration == c.endTime - c.startTime IN
    [ transcript |-> joinTexts(c.segments),
      duration |-> toFixed2(duration),
      totalWords |-> Len(c.allWords),
      words |-> c.allWords,
      paceTimeline |-> calculatePaceTimeline(c, 0),
      averagePace |-> IF toFixed2(duration) > 0
                      THEN MathRound(Len(c.allWords) * 60000, toFixed2(duration))
                      ELSE 0,
      fillers |-> detectFillers(c.allWords, 1),
      pauses |-> detectPauses(c.allWords, 2),
      transcriptSegments |-> c.segments ]

\* generateSummary, for a session with accumulated words
generateSummary(c) ==
    LET duration == c.endTime - c.startTime IN
    [ transcript |-> joinTexts(c.segments),
      duration |-> toFixed2(duration),
      totalWords |-> Len(c.allWords),
      words |-> c.allWords,
      paceTimeline |-> calculatePaceTimeline(c, 0),
      averagePace |-> IF duration > 0
                      THEN MathRound(Len(c.allWords) * 60000, duration) ELSE 0,
      fillers |-> detectFillers(c.allWords, 1),
      pauses |-> detectPauses(c.allWords, 2),
      transcriptSegments |-> c.segments ]

\* sendToBackend: the body of the request
sendToBackend(c, summary) ==
    [ roomName |-> c.roomName, participantIdentity |-> c.participantIdentity,
      sessionData |-> summary ]

\* ---- "complete" ------------------------------------------------------------
\* completeSession() up to its return or its await: with no words the error
\* is reported and it returns; else the summary is generated and posted.
completeSession(c) ==
    IF Len(c.allWords) = 0
    THEN [empty |-> TRUE, summaries |-> 0, posts |-> 0, pc |-> "completed",
          out |-> << Msg("error", "No session data to complete") >>,
          posted |-> << >>]
    ELSE [empty |-> FALSE, summaries |-> 1, posts |-> 1, pc |-> "post",
          out |-> << >>,
          posted |-> << sendToBackend(c, generateSummary(c)) >>]

\* the complete branch with `session` null answers with an error message
noSessionReplySilent == << >>

noSessionReply == << Msg("error", "No active session to complete") >>

RecvComplete ==
    /\ CanReceive
    /\ nmsg' = nmsg + 1
    /\ last' = CompleteMsg
    /\ UNCHANGED <<gate, audio, peer>>
    /\ IF session # 0
       THEN LET r == completeSession(sess[session]) IN
            /\ posted' = r.posted
            /\ obs' = [obs EXCEPT ![session].summaries = @ + r.summaries,
                                  ![session].posts = @ + r.posts,
                                  ![session].completeActed = TRUE]
            /\ tasks' = tasks \cup
                 {[Task(nmsg + 1, "complete", r.pc, session) EXCEPT !.empty = r.empty]}
            /\ out' = sendToClient(r.out)
       ELSE /\ out' = sendToClient(noSessionReply)
            /\ posted' = << >>
            /\ UNCHANGED <<obs, tasks>>
    /\ UNCHANGED <<ws, session, sess, room, dg>>

InterviewId == "iv1"

\* axios.post settled: completeSession() reports the outcome and returns
BackendDone(t, ok) ==
    /\ EventLoopTurn
    /\ t \in tasks /\ t.kind = "complete" /\ t.pc = "post"
    /\ out' = sendToClient(
                 IF ok THEN << [type |-> "session_complete",
                                message |-> "Session completed. Analysis in progress...",
                                interviewId |-> InterviewId] >>
                       ELSE << Msg("error", "Failed to complete session") >>)
    /\ tasks' = (tasks \ {t}) \cup
                 {[t EXCEPT !.pc = "completed",
                            !.failed = IF ok THEN {} ELSE {"post"}]}
    /\ obs' = [obs EXCEPT ![t.sid].backendFailed = @ \/ ~ok]
    /\ last' = NoMsg
    /\ posted' = << >>
    /\ UNCHANGED <<gate, audio, peer>>
    /\ UNCHANGED <<ws, session, sess, room, dg, nmsg>>

\* `await session.completeSession()` resumes: `await session.cleanup()` on
\* whatever the handler's session variable holds now
CompleteCleanup(t) ==
    /\ t \in tasks /\ t.kind = "complete" /\ t.pc = "completed"
    /\ last' = NoMsg
    /\ posted' = << >>
    /\ UNCHANGED <<gate, audio, peer>>
    /\ IF session # 0
       THEN \E dgThrows \in ThrowChoices(sess[session].dgConnection) :
               CallCleanup(t, t, session, dgThrows, room, << >>)
       ELSE \* session is null: TypeError, reported by the handler's catch
            /\ out' = sendToClient(<< Msg("error", "Cannot read properties of null") >>)
            /\ tasks' = tasks \ {t}
            /\ UNCHANGED <<sess, room, dg, obs>>
    /\ UNCHANGED <<ws, session, nmsg>>

\* ---- cleanup() resumes -----------------------------------------------------
\* room.disconnect() settled; a rejection is caught.  this.room = null.
DisconnectDone(t, throws) ==
    /\ t \in tasks /\ t.pc \in {"disc_wait", "disc_now"}
    /\ t.pc = "disc_wait" => EventLoopTurn
    /\ throws => t.pc = "disc_wait"
    /\ LET s == t.sid
           r == cleanupResume(sess[s], throws)
       IN
       /\ sess' = [sess EXCEPT ![s] = r.sess]
       /\ room' = [room EXCEPT ![s] = IF @ = "closing" /\ ~throws THEN "closed" ELSE @]
       /\ obs' = [obs EXCEPT ![s].settled = ~r.threw,
                             ![s].propagated = @ \/ r.threw]
       /\ IF r.threw
          THEN /\ tasks' = tasks \ {t}
               /\ out' = sendToClient(IF t.kind \in ControlKinds
                                      THEN << Msg("error", "disconnect failed") >>
                                      ELSE << >>)
          ELSE /\ tasks' = (tasks \ {t}) \cup
                     {[t EXCEPT !.pc = "cleaned",
                                !.failed = @ \cup (IF throws THEN {"room"} ELSE {})]}
               /\ out' = << >>
    /\ last' = NoMsg
    /\ posted' = << >>
    /\ UNCHANGED <<gate, audio, peer>>
    /\ UNCHANGED <<ws, session, dg, nmsg>>

\* a stop branch that does not clear `session` after the cleanup
AfterCleanupKeepsSession(t) ==
    /\ t \in tasks /\ t.pc = "cleaned"
    /\ tasks' = tasks \ {t}
    /\ session' = IF t.kind = "complete" THEN 0 ELSE session
    /\ out' = sendToClient(
                 CASE t.kind = "stop" ->
                        << Msg("stopped", "Transcription session stopped") >>
                   [] t.kind = "start" ->
                        << Msg("started", "Transcription session started") >>
                   [] OTHER -> << >>)
    /\ last' = NoMsg
    /\ posted' = << >>
    /\ UNCHANGED <<gate, audio, peer>>
    /\ UNCHANGED <<ws, sess, room, dg, obs, nmsg>>

\* The caller's `await ...cleanup()` resumes:
\*   stop      session = null; "stopped" is sent
\*   complete  session = null
\*   start     start() returns from its catch block and the handler sends "started"
\*   close, Disconnected   the handler ends
AfterCleanup(t) ==
    /\ t \in tasks /\ t.pc = "cleaned"
    /\ tasks' = tasks \ {t}
    /\ session' = IF t.kind \in {"stop", "complete"} THEN 0 ELSE session
    /\ out' = sendToClient(
                 CASE t.kind = "stop" ->
                        << Msg("stopped", "Transcription session stopped") >>
                   [] t.kind = "start" ->
                        << Msg("started", "Transcription session started") >>
                   [] OTHER -> << >>)
    /\ last' = NoMsg
    /\ posted' = << >>
    /\ UNCHANGED <<gate, audio, peer>>
    /\ UNCHANGED <<ws, sess, room, dg, obs, nmsg>>

\* ---- the socket closes -----------------------------------------------------
\* ws.on('close'): `if (session) await session.cleanup()`
Close ==
    /\ EventLoopTurn
    /\ ws # "closed"
    /\ ws' = "closed"
    /\ IF session # 0
       THEN \E dgThrows \in ThrowChoices(sess[session].dgConnection) :
               LET tk == Task(0, "close", "cleaned", session) IN
               CallCleanup(tk, tk, session, dgThrows, room, << >>)
       ELSE /\ out' = << >>
            /\ UNCHANGED <<sess, room, dg, obs, tasks>>
    /\ last' = NoMsg
    /\ posted' = << >>
    /\ UNCHANGED <<gate, audio, peer>>
    /\ UNCHANGED <<session, nmsg>>

\* ---- LiveKit ---------------------------------------------------------------
\* The link of a connected room drops: RoomEvent.Disconnected, whose handler
\* is `await this.cleanup()`.
LiveKitDisconnected(s) ==
    /\ EventLoopTurn
    /\ s \in Sessions
    /\ room[s] = "connected"
    /\ \E dgThrows \in ThrowChoices(sess[s].dgConnection) :
          LET tk == Task(0 - s, "lkdisc", "cleaned", s) IN
          CallCleanup(tk, tk, s, dgThrows, [room EXCEPT ![s] = "dropped"], << >>)
    /\ last' = NoMsg
    /\ posted' = << >>
    /\ UNCHANGED <<gate, audio, peer>>
    /\ UNCHANGED <<ws, session, nmsg>>

\* ---- audio ----------------------------------------------------------------
\* the tracks published in a room: each participant may publish the audio
\* of the microphone, the audio of a shared screen, and the camera
TrackKinds == {"audio", "video"}
TrackSources == {"microphone", "screen_share_audio", "camera"}
kindOf(source) == IF source = "camera" THEN "video" ELSE "audio"
Tracks == {[participant |-> p, kind |-> kindOf(src), source |-> src] :
              p \in Identities, src \in TrackSources}

\* a TrackSubscribed handler that takes the audio of every participant
wantsTrackOfAnyone(c, tr) == tr.kind = "audio"

\* the condition of the TrackSubscribed handler
wantsTrack(c, tr) ==
    tr.participant = c.participantIdentity /\ tr.kind = "audio"

\* the room delivers events of its tracks: from the moment the connection
\* to LiveKit is being established (the handlers are registered before
\* room.connect() is called and tracks are subscribed automatically; the
\* order of these events and of the resolution of connect() is the
\* library's) until the room is disconnected; frames the AudioStream has
\* queued are still yielded while room.disconnect() is in progress
Delivers(s) == s \in Sessions /\ room[s] \in {"connecting", "connected", "closing"}

\* RoomEvent.TrackSubscribed of track tr in the room of session s: for the
\* track it wants the handler calls handleAudioTrack, which creates the
\* AudioStream and awaits its first frame
TrackSubscribed(s, tr) ==
    /\ EventLoopTurn
    /\ Delivers(s)
    /\ <<s, tr>> \notin audio.subscribed
    /\ audio' = [subscribed |-> audio.subscribed \cup {<<s, tr>>},
                 loops |-> audio.loops \cup
                           (IF wantsTrack(sess[s], tr) THEN {<<s, tr>>} ELSE {})]
    /\ last' = NoMsg
    /\ out' = << >>
    /\ posted' = << >>
    /\ UNCHANGED <<ws, session, sess, room, dg, obs, tasks, nmsg, gate, peer>>

\* a loop that skips the frame of a session that is not Active and goes on
handleAudioFrameSkips(c) ==
    [forwarded |-> c.dgConnection /\ c.sessionActive, looping |-> TRUE]

\* one turn of the `for await` loop of handleAudioTrack: the frame is sent
\* to Deepgram, or the loop is left
handleAudioFrame(c) ==
    IF c.dgConnection /\ c.sessionActive
    THEN [forwarded |-> TRUE, looping |-> TRUE]
    ELSE [forwarded |-> FALSE, looping |-> FALSE]

\* a frame of a subscribed track arrives; only a track with a running loop
\* has an AudioStream that yields it
AudioFrame(s, tr) ==
    /\ EventLoopTurn
    /\ Delivers(s)
    /\ <<s, tr>> \in audio.subscribed
    /\ LET r == IF <<s, tr>> \in audio.loops THEN handleAudioFrame(sess[s])
                ELSE [forwarded |-> FALSE, looping |-> FALSE]
       IN /\ audio' = [audio EXCEPT !.loops = IF r.looping THEN @ ELSE @ \ {<<s, tr>>}]
          /\ last' = [action |-> "frame", sid |-> s, track |-> tr,
                      ran |-> <<s, tr>> \in audio.loops,
                      forwarded |-> r.forwarded]
    /\ out' = << >>
    /\ posted' = << >>
    /\ UNCHANGED <<ws, session, sess, room, dg, obs, tasks, nmsg, gate, peer>>

\* ---- Deepgram --------------------------------------------------------------
\* LiveTranscriptionEvents.Open: the handler registers the Transcript and
\* Error handlers on this.dgConnection (a connection that requestClose()
\* reached before it opened does not open)
DeepgramOpen(s) ==
    /\ EventLoopTurn
    /\ s \in Sessions
    /\ dg[s] = "connecting"
    /\ sess[s].dgConnection
    /\ dg' = [dg EXCEPT ![s] = "open"]
    /\ out' = << >>
    /\ last' = NoMsg
    /\ posted' = << >>
    /\ UNCHANGED <<gate, audio, peer>>
    /\ UNCHANGED <<ws, session, sess, room, obs, tasks, nmsg>>

\* an accumulation that tests the start timestamp for falsiness
accumulateFalsyStart(c, e) ==
    [c EXCEPT
       !.startTime = IF @ = Null \/ @ = 0 THEN e.words[1].start ELSE @,
       !.allWords = @ \o e.words,
       !.segments = Append(@, [text |-> e.transcript,
                               startTime |-> e.words[1].start,
                               endTime |-> e.words[Len(e.words)].end,
                               words |-> e.words]),
       !.endTime = e.words[Len(e.words)].end]

\* what handleTranscript pushes for a final event with words
accumulate(c, e) ==
    [c EXCEPT
       !.startTime = IF @ = Null THEN e.words[1].start ELSE @,
       !.allWords = @ \o e.words,
       !.segments = Append(@, [text |-> e.transcript,
                               startTime |-> e.words[1].start,
                               endTime |-> e.words[Len(e.words)].end,
                               words |-> e.words]),
       !.endTime = e.words[Len(e.words)].end]

\* handleTranscript that forwards final events only
handleTranscriptForwardsFinal(c, e) ==
    IF e.transcript = "" THEN [sess |-> c, out |-> << >>]
    ELSE [ out |-> IF e.is_final
                   THEN << [type |-> "transcript", text |-> e.transcript,
                            isFinal |-> e.is_final, words |-> e.words] >>
                   ELSE << >>,
           sess |-> IF e.is_final /\ Len(e.words) > 0 THEN accumulate(c, e) ELSE c ]

\* handleTranscript that accumulates every event with words, interim or final
handleTranscriptStoresInterim(c, e) ==
    IF e.transcript = "" THEN [sess |-> c, out |-> << >>]
    ELSE [ out |-> << [type |-> "transcript", text |-> e.transcript,
                       isFinal |-> e.is_final, words |-> e.words] >>,
           sess |-> IF Len(e.words) > 0 THEN accumulate(c, e) ELSE c ]

\* handleTranscript: the event is forwarded; a final one with words is
\* accumulated
handleTranscript(c, e) ==
    IF e.transcript = "" THEN [sess |-> c, out |-> << >>]
    ELSE [ out |-> << [type |-> "transcript", text |-> e.transcript,
                       isFinal |-> e.is_final, words |-> e.words] >>,
           sess |->
             IF e.is_final /\ Len(e.words) > 0 THEN accumulate(c, e) ELSE c ]

\* the Transcript handler: `this.handleTranscript(data)`
ReceiveTranscript(s, e) ==
    /\ LET r == handleTranscript(sess[s], e) IN
       /\ sess' = [sess EXCEPT ![s] = r.sess]
       /\ out' = sendToClient(r.out)
       /\ obs' = [obs EXCEPT ![s].settled = @ /\ r.sess = sess[s],
                             ![s].finals = IF e.is_final /\ Len(e.words) > 0
                                           THEN Append(@, e.transcript) ELSE @]
    /\ last' = [action |-> "transcript", sid |-> s, event |-> e]
    /\ posted' = << >>
    /\ UNCHANGED <<gate, audio, peer>>
    /\ UNCHANGED <<ws, session, room, dg, tasks, nmsg>>

\* LiveTranscriptionEvents.Transcript on a connection whose handlers are
\* registered; results still arrive while a closed stream is flushed
DeepgramTranscript(s, e) ==
    /\ EventLoopTurn
    /\ s \in Sessions
    /\ dg[s] \in {"open", "closing"}
    /\ (e.is_final /\ Len(e.words) > 0) => Len(sess[s].segments) < MaxSegments
    /\ ReceiveTranscript(s, e)

\* the same event in a longer interview: Deepgram reports the words of the
\* audio in the order of their time
InterviewTranscript(s, e) ==
    /\ EventLoopTurn
    /\ s \in Sessions
    /\ dg[s] \in {"open", "closing"}
    /\ Len(sess[s].allWords) + Len(e.words) <= MaxWords
    /\ (Len(e.words) > 0 /\ sess[s].endTime # Null)
       => e.words[1].start >= sess[s].endTime
    /\ ReceiveTranscript(s, e)

\* ---- utterances for the filler detection --------------------------------
\* words as Deepgram spells them; each utterance is one final event
Tokens == {"I", "Um", "UM", "ummmm", "you", "know"}
LongTokens == {"um", "I"}
MaxTokens == 7

\* the i-th word of an utterance: 0.2 s long, 0.2 s after the word before
wordAt(token, i) == [word |-> token, start |-> 400 * (i - 1), end |-> 400 * (i - 1) + 200]

utterance(f) ==
    LET words == [i \in DOMAIN f |-> wordAt(f[i], i)] IN
    [transcript |-> join(f), is_final |-> TRUE, words |-> words]

\* short utterances of every token, longer ones of a filler and a pronoun
FillerEvents ==
    { utterance(f) : f \in UNION {[1..n -> Tokens] : n \in 1..MaxWords} }
    \cup { utterance(f) :
             f \in UNION {[1..n -> LongTokens] : n \in (MaxWords + 1)..MaxTokens} }

\* the utterance arrives at a session that has accumulated nothing yet
FillerTranscript(s, e) ==
    /\ EventLoopTurn
    /\ s \in Sessions
    /\ dg[s] \in {"open", "closing"}
    /\ sess[s].allWords = << >>
    /\ ReceiveTranscript(s, e)

\* LiveTranscriptionEvents.Error: the transport to Deepgram failed; the
\* registered handler logs the error
DeepgramError(s) ==
    /\ EventLoopTurn
    /\ s \in Sessions
    /\ dg[s] = "open"
    /\ dg' = [dg EXCEPT ![s] = "failed"]
    /\ out' = << >>
    /\ last' = NoMsg
    /\ posted' = << >>
    /\ UNCHANGED <<gate, audio, peer>>
    /\ UNCHANGED <<ws, session, sess, room, obs, tasks, nmsg>>

\* ---- a second connection ---------------------------------------------------
\* handleWebSocketConnection runs once per connection: each run has its own
\* `ws` and its own `let session`, and the sessions it constructs are objects
\* of the same heap (sess, room, dg).  The handlers of the second connection
\* are the same code; here each runs to its end in one step.
PeerTokenRoom == "r2"
PeerTokenIdentity == "p2"

\* a handler that reads one `session` variable shared by all connections
peerSessionShared == session

\* the `session` variable of the second connection's handler
peerSession == peer.session

\* the sessions the first connection constructed
Own == Sessions \ peer.owned

PeerStep ==
    /\ last' = [action |-> "peer", roomName |-> "", participantIdentity |-> ""]
    /\ out' = << >>
    /\ posted' = << >>
    /\ UNCHANGED <<ws, session, tasks, nmsg, gate, audio>>

\* the second client connects with its token
PeerConnect ==
    /\ peer.ws = "none"
    /\ peer' = [peer EXCEPT !.ws = "open"]
    /\ PeerStep
    /\ UNCHANGED <<sess, room, dg, obs>>

\* "start" on the second connection: the session is constructed, start()
\* connects the room and creates the Deepgram connection, which opens
PeerStart ==
    /\ peer.ws = "open" /\ peer.owned = {}
    /\ sess' = Append(sess, [NewSession(PeerTokenRoom, PeerTokenIdentity) EXCEPT
                               !.room = TRUE, !.dgConnection = TRUE,
                               !.sessionActive = TRUE])
    /\ room' = Append(room, "connected")
    /\ dg' = Append(dg, "open")
    /\ obs' = Append(obs, NewObs)
    /\ peer' = [peer EXCEPT !.session = Len(sess) + 1, !.owned = @ \cup {Len(sess) + 1}]
    /\ PeerStep

\* a recognition event for the second connection's session
PeerTranscript(e) ==
    /\ \E s \in peer.owned :
          /\ dg[s] = "open"
          /\ (e.is_final /\ Len(e.words) > 0) => Len(sess[s].segments) < MaxSegments
          /\ sess' = [sess EXCEPT ![s] = handleTranscript(@, e).sess]
    /\ PeerStep
    /\ UNCHANGED <<room, dg, obs, peer>>

\* cleanup() of session s from its call to its return
PeerCleanup(s) ==
    /\ sess' = [sess EXCEPT ![s] = cleanupResume(cleanup(@, FALSE).sess, FALSE).sess]
    /\ dg' = [dg EXCEPT ![s] = IF sess[s].dgConnection THEN DgAfterRequestClose(@) ELSE @]
    /\ room' = [room EXCEPT ![s] = IF sess[s].room THEN "closed" ELSE @]
    /\ UNCHANGED obs

\* "stop" (teardown) on the second connection
PeerStop ==
    /\ peer.ws = "open" /\ peerSession # 0
    /\ PeerCleanup(peerSession)
    /\ peer' = [peer EXCEPT !.session = 0]
    /\ PeerStep

\* the room of the second connection's session drops (failure): its
\* Disconnected handler runs cleanup()
PeerRoomDropped ==
    /\ \E s \in peer.owned : room[s] = "connected" /\ PeerCleanup(s)
    /\ PeerStep
    /\ UNCHANGED peer

\* the second client disconnects: the close handler cleans its session up
PeerClose ==
    /\ peer.ws = "open"
    /\ IF peerSession # 0 THEN PeerCleanup(peerSession)
       ELSE UNCHANGED <<sess, room, dg, obs>>
    /\ peer' = [peer EXCEPT !.ws = "closed"]
    /\ PeerStep

\* ---- the token gate (middleware/jwtAuth.ts) ---------------------------------
\* A claim of the token's payload is absent, empty, or a value.
Undefined == "undefined"
Falsy(v) == v \in {Undefined, ""}

\* What the request's URL gives for the token parameter: the URL does not
\* parse, there is no parameter, the parameter is empty, or a token is given.
TokenParams == {"bad_url", "absent", "empty", "given"}

\* What jwt.verify finds wrong with a given token, in the order it checks
VerifyFaults ==
    {"none", "malformed", "bad_signature", "not_before", "expired",
     "bad_audience", "bad_issuer"}

\* an upgrade request: the token parameter, the token's fault and payload
\* claims, and whether the request is a well-formed WebSocket handshake
UpgradeRequests ==
    [ token : TokenParams, fault : VerifyFaults,
      userId : {Undefined, "", "u1"},
      roomName : {Undefined, "", TokenRoom},
      participantIdentity : {Undefined, "", TokenIdentity},
      handshake : BOOLEAN ]

\* extractTokenFromRequest: the value of the token parameter, or null
NullToken == "null"
extractTokenFromRequest(req) ==
    CASE req.token = "given" -> "jwt"
      [] req.token = "empty" -> ""
      [] OTHER -> NullToken

\* the error class jwt.verify throws for a fault
jwtVerify(req) ==
    CASE req.fault = "none" -> "none"
      [] req.fault = "expired" -> "TokenExpiredError"
      [] req.fault = "not_before" -> "NotBeforeError"
      [] OTHER -> "JsonWebTokenError"

\* `error instanceof cls`: TokenExpiredError and NotBeforeError extend
\* JsonWebTokenError
InstanceOf(error, cls) ==
    \/ error = cls
    \/ cls = "JsonWebTokenError" /\ error \in {"TokenExpiredError", "NotBeforeError"}

\* validateJwt that returns the payload without looking at its claims
validateJwtNoClaims(req) ==
    LET error == jwtVerify(req) IN
    IF error = "none" THEN [ok |-> TRUE, message |-> ""]
    ELSE IF InstanceOf(error, "TokenExpiredError")
         THEN [ok |-> FALSE, message |-> "Token expired"]
    ELSE IF InstanceOf(error, "JsonWebTokenError")
         THEN [ok |-> FALSE, message |-> "Invalid authentication token"]
    ELSE IF InstanceOf(error, "NotBeforeError")
         THEN [ok |-> FALSE, message |-> "Token not yet valid"]
    ELSE [ok |-> FALSE, message |-> "Token validation failed"]

\* validateJwt: the payload is returned (ok), or an Error with message is
\* thrown.  The Error thrown for missing claims is thrown inside the try
\* and passes through the catch with its own message.
validateJwt(req) ==
    LET error == IF jwtVerify(req) # "none" THEN jwtVerify(req)
                 ELSE IF \/ Falsy(req.userId) \/ Falsy(req.roomName)
                         \/ Falsy(req.participantIdentity)
                      THEN "Error"
                 ELSE "none"
    IN
    IF error = "none" THEN [ok |-> TRUE, message |-> ""]
    ELSE IF InstanceOf(error, "TokenExpiredError")
         THEN [ok |-> FALSE, message |-> "Token expired"]
    ELSE IF InstanceOf(error, "JsonWebTokenError")
         THEN [ok |-> FALSE, message |-> "Invalid authentication token"]
    ELSE IF InstanceOf(error, "NotBeforeError")
         THEN [ok |-> FALSE, message |-> "Token not yet valid"]
    ELSE [ok |-> FALSE,
          message |-> "Missing required claims: userId, roomName, or participantIdentity"]

Unauthorized401 == "HTTP/1.1 401 Unauthorized"
BadRequest400 == "HTTP/1.1 400 Bad Request"

\* the gate before the request is handled
GatePending(req) ==
    [ request |-> req, socket |-> "pending", written |-> << >>,
      reason |-> "", handler |-> FALSE,
      userId |-> Undefined, roomName |-> Undefined,
      participantIdentity |-> Undefined ]

\* authenticateWebSocket and the callback server.ts gives it: what becomes
\* of the gate g.  socket: "upgraded" or "destroyed"; written: what was
\* written to the raw socket; reason: the failure reason logged; handler:
\* the connection handler was invoked, with the claims attached to the socket.
authenticateWebSocket(g) ==
    LET req == g.request
        token == extractTokenFromRequest(req)
        v == validateJwt(req)
    IN
    IF token \in {NullToken, ""}
    THEN [g EXCEPT !.socket = "destroyed", !.written = << Unauthorized401 >>,
                   !.reason = "missing_token"]
    ELSE IF ~v.ok
    THEN [g EXCEPT !.socket = "destroyed", !.written = << Unauthorized401 >>,
                   !.reason = v.message]
    ELSE IF ~req.handshake
    THEN \* wss.handleUpgrade refuses the handshake itself
         [g EXCEPT !.socket = "destroyed", !.written = << BadRequest400 >>]
    ELSE [g EXCEPT !.socket = "upgraded", !.handler = TRUE,
                   !.userId = req.userId, !.roomName = req.roomName,
                   !.participantIdentity = req.participantIdentity]

\* the request of the connection the handler actions below run on
AcceptedRequest ==
    [ token |-> "given", fault |-> "none", userId |-> "u1",
      roomName |-> TokenRoom, participantIdentity |-> TokenIdentity,
      handshake |-> TRUE ]

\* server.on('upgrade'): the request is authenticated; on success the
\* connection handler starts with `session = null` on the open socket
Upgrade ==
    /\ gate.socket = "pending"
    /\ gate' = authenticateWebSocket(gate)
    /\ UNCHANGED <<audio, peer>>
    /\ ws' = IF gate'.handler THEN "open" ELSE ws
    /\ session' = 0
    /\ last' = NoMsg
    /\ out' = << >>
    /\ posted' = << >>
    /\ UNCHANGED <<sess, room, dg, obs, tasks, nmsg>>

Init ==
    /\ ws = "open"
    /\ session = 0
    /\ sess = << >>
    /\ room = << >>
    /\ dg = << >>
    /\ obs = << >>
    /\ tasks = {}
    /\ nmsg = 0
    /\ last = NoMsg
    /\ out = << >>
    /\ posted = << >>
    /\ gate = authenticateWebSocket(GatePending(AcceptedRequest))
    /\ audio = NoAudio
    /\ peer = NoPeer

Next ==
    \/ \E rn \in RoomNames, pi \in Identities : RecvStart(rn, pi)
    \/ RecvStop
    \/ RecvComplete
    \/ Close
    \/ \E t \in tasks : StartTokenReady(t)
    \/ \E t \in tasks, o \in ConnectOutcomes : ConnectDone(t, o)
    \/ \E t \in tasks : StartReturn(t)
    \/ \E t \in tasks, ok \in BOOLEAN : BackendDone(t, ok)
    \/ \E t \in tasks : CompleteCleanup(t)
    \/ \E t \in tasks, throws \in BOOLEAN : DisconnectDone(t, throws)
    \/ \E t \in tasks : AfterCleanup(t)
    \/ \E s \in Sessions : LiveKitDisconnected(s)
    \/ \E s \in Sessions : DeepgramOpen(s)
    \/ \E s \in Sessions, e \in TranscriptEvents : DeepgramTranscript(s, e)
    \/ \E s \in Sessions : DeepgramError(s)

Spec == Init /\ [][Next]_vars

\* The client starts at most one session on the connection.
NextOneSession ==
    \/ \E rn \in RoomNames, pi \in Identities :
          /\ startCheck(rn, pi) = "ok" => sess = << >>
          /\ RecvStart(rn, pi)
    \/ RecvStop
    \/ RecvComplete
    \/ Close
    \/ \E t \in tasks : StartTokenReady(t)
    \/ \E t \in tasks, o \in ConnectOutcomes : ConnectDone(t, o)
    \/ \E t \in tasks : StartReturn(t)
    \/ \E t \in tasks, ok \in BOOLEAN : BackendDone(t, ok)
    \/ \E t \in tasks : CompleteCleanup(t)
    \/ \E t \in tasks, throws \in BOOLEAN : DisconnectDone(t, throws)
    \/ \E t \in tasks : AfterCleanup(t)
    \/ \E s \in Sessions : LiveKitDisconnected(s)
    \/ \E s \in Sessions : DeepgramOpen(s)
    \/ \E s \in Sessions, e \in TranscriptEvents : DeepgramTranscript(s, e)
    \/ \E s \in Sessions : DeepgramError(s)

SpecOneSession == Init /\ [][NextOneSession]_vars

\* The upgrade request of a connection, before and after the token gate.
InitGate ==
    /\ ws = "none"
    /\ session = 0
    /\ sess = << >>
    /\ room = << >>
    /\ dg = << >>
    /\ obs = << >>
    /\ tasks = {}
    /\ nmsg = 0
    /\ last = NoMsg
    /\ out = << >>
    /\ posted = << >>
    /\ gate \in {GatePending(req) : req \in UpgradeRequests}
    /\ audio = NoAudio
    /\ peer = NoPeer

NextGate == Upgrade

SpecGate == InitGate /\ [][NextGate]_vars

\* A longer interview: the session is Active with its Deepgram connection
\* open (after "start", the LiveKit connection and Deepgram's Open event),
\* recognition events arrive and the client sends "complete".
InitInterview ==
    /\ ws = "open"
    /\ session = 1
    /\ sess = << [NewSession(TokenRoom, TokenIdentity) EXCEPT
                    !.room = TRUE, !.dgConnection = TRUE, !.sessionActive = TRUE] >>
    /\ room = << "connected" >>
    /\ dg = << "open" >>
    /\ obs = << NewObs >>
    /\ tasks = {}
    /\ nmsg = 1
    /\ last = NoMsg
    /\ out = << >>
    /\ posted = << >>
    /\ gate = authenticateWebSocket(GatePending(AcceptedRequest))
    /\ audio = NoAudio
    /\ peer = NoPeer

NextInterview ==
    \/ \E s \in Sessions, e \in InterviewEvents : InterviewTranscript(s, e)
    \/ RecvComplete

SpecInterview == InitInterview /\ [][NextInterview]_vars

\* Two connections: the first starts at most one session, receives at most
\* MaxPairMsgs messages and stays connected (the second one also
\* disconnects); the events of the environment are those of its own sessions.
MaxPairMsgs == 2

NextPair ==
    \/ /\ Own = {} /\ nmsg < MaxPairMsgs
       /\ RecvStart(TokenRoom, TokenIdentity)
    \/ nmsg < MaxPairMsgs /\ RecvStop
    \/ nmsg < MaxPairMsgs /\ RecvComplete
    \/ \E t \in tasks : StartTokenReady(t)
    \/ \E t \in tasks, o \in ConnectOutcomes : ConnectDone(t, o)
    \/ \E t \in tasks : StartReturn(t)
    \/ \E t \in tasks, ok \in BOOLEAN : BackendDone(t, ok)
    \/ \E t \in tasks : CompleteCleanup(t)
    \/ \E t \in tasks, throws \in BOOLEAN : DisconnectDone(t, throws)
    \/ \E t \in tasks : AfterCleanup(t)
    \/ \E s \in Own : LiveKitDisconnected(s)
    \/ \E s \in Own : DeepgramOpen(s)
    \/ \E s \in Own, e \in TranscriptEvents : DeepgramTranscript(s, e)
    \/ PeerConnect
    \/ PeerStart
    \/ \E e \in TranscriptEvents : PeerTranscript(e)
    \/ PeerStop
    \/ PeerRoomDropped
    \/ PeerClose

SpecPair == Init /\ [][NextPair]_vars

\* One session from "start" to "stop", with the tracks of its room.
NextAudio ==
    \/ /\ sess = << >>
       /\ RecvStart(TokenRoom, TokenIdentity)
    \/ RecvStop
    \/ \E t \in tasks : StartTokenReady(t)
    \/ \E t \in tasks, o \in ConnectOutcomes : ConnectDone(t, o)
    \/ \E t \in tasks : StartReturn(t)
    \/ \E t \in tasks, throws \in BOOLEAN : DisconnectDone(t, throws)
    \/ \E t \in tasks : AfterCleanup(t)
    \/ \E s \in Sessions, tr \in Tracks : TrackSubscribed(s, tr)
    \/ \E s \in Sessions, tr \in Tracks : AudioFrame(s, tr)

SpecAudio == Init /\ [][NextAudio]_vars

\* One utterance and the client's "complete".
NextFillers ==
    \/ \E s \in Sessions :
          /\ sess[s].allWords = << >>
          /\ \E e \in FillerEvents : FillerTranscript(s, e)
    \/ RecvComplete

SpecFillers == InitInterview /\ [][NextFillers]_vars

\* the state the interview starts in is a state of the connection
InterviewStartReached ==
    /\ session = 1 /\ Len(sess) = 1 /\ tasks = {} /\ nmsg = 1
    /\ sess[1] = [NewSession(TokenRoom, TokenIdentity) EXCEPT
                    !.room = TRUE, !.dgConnection = TRUE, !.sessionActive = TRUE]
    /\ room = << "connected" >> /\ dg = << "open" >> /\ obs = << NewObs >>
    /\ ws = "open"

\* ---- properties ------------------------------------------------------------
\* session s holds a live LiveKit room or a live Deepgram connection
HoldsLive(s) ==
    \/ sess[s].room /\ room[s] = "connected"
    \/ sess[s].dgConnection /\ dg[s] \in {"connecting", "open"}

\* session s is Closed: inactive, holding no room and no Deepgram connection
Closed(s) ==
    ~sess[s].sessionActive /\ ~sess[s].dgConnection /\ ~sess[s].room

\* no handler invocation is in progress on session s
Quiet(s) == \A t \in tasks : t.sid # s

\* this step is a step of the suspended handler invocation t
StepOf(t) == t \in tasks /\ t \notin tasks'

\* this step calls cleanup() on session s, and the call does not throw
CleanupCalledOn(s) ==
    \E t \in tasks' :
       /\ t.sid = s
       /\ t.pc \in CleanupPcs
       /\ \A u \in tasks : u.id = t.id => u.pc \notin CleanupPcs

\* C1: on one connection at most one session holds a live LiveKit room or a
\* live Deepgram connection, and a session replaced by a later "start" (any
\* session but the one constructed last) holds none.
C1_AtMostOneLiveSession ==
    /\ Cardinality({s \in Sessions : HoldsLive(s)}) <= 1
    /\ \A s \in Sessions : s < Len(sess) => ~HoldsLive(s)

\* C2: a "complete" processed for a session with no accumulated words sends
\* an error, posts nothing, and leaves the session as it was: an Active
\* session stays Active, keeps its room and its Deepgram connection, and
\* stays the handler's session, through every step of that handler.
C2_EmptyCompleteLeavesSession ==
    [][ /\ ( /\ nmsg' # nmsg /\ last'.action = "complete"
             /\ session # 0 /\ Len(sess[session].allWords) = 0 )
           => /\ ws = "open" => out' = << Msg("error", "No session data to complete") >>
              /\ obs'[session].posts = obs[session].posts
              /\ sess' = sess /\ session' = session
        /\ \A t \in tasks :
              ( /\ StepOf(t) /\ t.kind = "complete" /\ t.empty
                /\ session = t.sid /\ sess[t.sid].sessionActive )
              => /\ sess'[t.sid].sessionActive
                 /\ sess'[t.sid].room /\ sess'[t.sid].dgConnection
                 /\ session' = session
      ]_vars

\* C3: the handling of a control message finishes before the handling of the
\* next one begins: at most one message handler is in progress.
C3_OneMessageAtATime ==
    Cardinality({t \in tasks : t.kind \in ControlKinds}) <= 1

\* C4: of a "stop" and a "complete" received for one session only the one
\* processed first acts on it; the other finds no session.
C4_StopCompleteExclusive ==
    \A s \in Sessions : ~(obs[s].stopActed /\ obs[s].completeActed)

\* C5: for each session at most one summary is built and at most one backend
\* request is made.
C5_AtMostOneSubmission ==
    \A s \in Sessions : obs[s].summaries <= 1 /\ obs[s].posts <= 1

\* C6: cleanup() called again on a session right after a cleanup() returned
\* throws nothing, changes no field of the session, calls neither
\* requestClose() nor disconnect(), and returns without waiting.
C6_CleanupIdempotent ==
    [][ \A s \in Sessions :
          (obs[s].settled /\ CleanupCalledOn(s))
          => /\ sess'[s] = sess[s]
             /\ obs'[s].requestClose = obs[s].requestClose
             /\ obs'[s].disconnect = obs[s].disconnect
             /\ ~obs'[s].propagated
             /\ \A t \in tasks' : (t.sid = s /\ t \notin tasks) => t.pc = "cleaned"
      ]_vars

\* a cleanup() was called on a session right after an earlier one returned
C6_Witness == \E t \in tasks : t.repeat /\ t.pc = "cleaned"

\* C7: when cleanup() returns, requestClose() was called if the session held
\* a Deepgram connection and disconnect() if it held a room, the session
\* holds neither and is inactive, whether or not a close operation threw;
\* and no cleanup() call ever throws to its caller.
C7_CleanupReleasesBoth ==
    /\ \A t \in tasks :
          t.pc = "cleaned"
          => /\ Closed(t.sid)
             /\ "dg" \in t.held => obs[t.sid].requestClose >= 1
             /\ "room" \in t.held => obs[t.sid].disconnect >= 1
    /\ \A s \in Sessions : ~obs[s].propagated

\* a cleanup() of a session holding both resources returned after both close
\* operations threw
C7_Witness ==
    \E t \in tasks :
       t.pc = "cleaned" /\ t.held = {"dg", "room"} /\ t.failed = {"dg", "room"}

\* C8: a session torn down by "stop" or by the client's disconnect while
\* start() was awaiting the LiveKit connection is Closed once start() and the
\* teardown have finished.
C8_TornWhileStartingEndsClosed ==
    \A s \in Sessions :
       (obs[s].tornStarting /\ Quiet(s))
       => ~sess[s].sessionActive /\ ~HoldsLive(s)

\* C9: after a Deepgram error event or a LiveKit Disconnected event the
\* session is torn down: once no handler is in progress on it, it is Closed.
C9_TransportFailureTearsDown ==
    \A s \in Sessions :
       ((dg[s] = "failed" \/ room[s] = "dropped") /\ Quiet(s)) => Closed(s)

\* C10: a "start" whose roomName or participantIdentity differs from the
\* token's claim closes the connection, reports the authorization error, and
\* creates no session and opens no connection.
C10_MismatchCreatesNoSession ==
    [][ ( /\ nmsg' # nmsg /\ last'.action = "start"
          /\ ( \/ last'.roomName # TokenRoom
               \/ last'.participantIdentity # TokenIdentity ) )
        => /\ ws' = "closing"
           /\ ws = "open" => /\ Len(out') = 1
                             /\ out'[1].type = "error"
                             /\ Unauthorized(out'[1].message)
           /\ UNCHANGED <<session, sess, room, dg, obs, tasks>>
      ]_vars

\* a "start" with the token's room and another identity was refused while a
\* session existed
C10_Witness ==
    /\ last.action = "start"
    /\ last.roomName = TokenRoom /\ last.participantIdentity # TokenIdentity
    /\ ws = "closing"
    /\ sess # << >>

\* the request carries a token that passes signature and expiry verification
\* and contains the three claims
TokenPasses(req) ==
    /\ req.token = "given"
    /\ req.fault \notin {"malformed", "bad_signature", "expired"}
    /\ req.userId # Undefined
    /\ req.roomName # Undefined
    /\ req.participantIdentity # Undefined

Accumulated(c) == <<c.allWords, c.segments, c.startTime, c.endTime>>

\* this step handles a recognition event of session s
ReceivesEvent(s) == last'.action = "transcript" /\ last'.sid = s

\* C12: a step that handles an interim event, or a final event without
\* words, leaves allWords, segments, startTime and endTime as they were; a
\* step that handles a final event with words appends that event's words, in
\* order, to allWords and one Segment to segments, and changes no entry that
\* was there.
C12_OnlyFinalWordsAccumulate ==
    [][ \A s \in Sessions :
          LET c == sess[s]
              d == sess'[s]
          IN
          IF ReceivesEvent(s) /\ last'.event.is_final /\ Len(last'.event.words) > 0
          THEN LET e == last'.event IN
               /\ Len(d.allWords) = Len(c.allWords) + Len(e.words)
               /\ SubSeq(d.allWords, 1, Len(c.allWords)) = c.allWords
               /\ SubSeq(d.allWords, Len(c.allWords) + 1, Len(d.allWords)) = e.words
               /\ Len(d.segments) = Len(c.segments) + 1
               /\ SubSeq(d.segments, 1, Len(c.segments)) = c.segments
               /\ d.segments[Len(d.segments)].words = e.words
               /\ d.segments[Len(d.segments)].text = e.transcript
          ELSE Accumulated(d) = Accumulated(c)
      ]_vars

\* a second final event was accumulated behind the first
C12_Witness ==
    /\ last.action = "transcript" /\ last.event.is_final
    /\ Len(sess[last.sid].segments) = 2
    /\ sess[last.sid].segments[2].words = last.event.words

\* the word lists of segments, one after the other
RECURSIVE WordsOf(_)
WordsOf(segs) ==
    IF segs = << >> THEN << >> ELSE segs[1].words \o WordsOf(Tail(segs))

\* strings put one after the other with a blank between them
RECURSIVE Spaced(_)
Spaced(texts) ==
    IF texts = << >> THEN ""
    ELSE LET front == Spaced(SubSeq(texts, 1, Len(texts) - 1)) IN
         IF Len(texts) = 1 THEN texts[1] ELSE front \o " " \o texts[Len(texts)]

\* C13: allWords is always the word lists of the accumulated segments one
\* after the other; the segments are the final events with words that
\* arrived, each once and in arrival order; and the transcript of a summary
\* that is generated is the texts of those events in that order.
C13_TranscriptIsTheFinalSegments ==
    /\ \A s \in Sessions :
          /\ sess[s].allWords = WordsOf(sess[s].segments)
          /\ Len(sess[s].segments) = Len(obs[s].finals)
          /\ \A i \in 1..Len(sess[s].segments) :
                sess[s].segments[i].text = obs[s].finals[i]
    /\ (posted # << >> /\ session # 0)
       => posted[1].sessionData.transcript = Spaced(obs[session].finals)

\* a summary of two accumulated segments was generated
C13_Witness ==
    /\ posted # << >> /\ session # 0
    /\ Len(sess[session].segments) = 2
    /\ Len(sess[session].allWords) = 3

\* the transcript message of a recognition event
TranscriptMsg(e) ==
    [type |-> "transcript", text |-> e.transcript,
     isFinal |-> e.is_final, words |-> e.words]

\* C14 as stated: every recognition event a session receives, interim or
\* final, is forwarded to the client, in the step that receives it (so in
\* arrival order), as exactly one transcript message with the event's text,
\* isFinal flag and words, whenever the client's socket is open.
C14_EveryEventForwarded ==
    [][ (last'.action = "transcript" /\ ws = "open")
        => out' = << TranscriptMsg(last'.event) >> ]_vars

\* C14 amended: that holds of every event whose transcript text is not
\* empty; an event with an empty text is dropped, and nothing is sent while
\* the socket is not open.
C14_EveryTextEventForwarded ==
    [][ last'.action = "transcript"
        => out' = IF ws = "open" /\ last'.event.transcript # ""
                  THEN << TranscriptMsg(last'.event) >>
                  ELSE << >> ]_vars

\* an interim event was forwarded
C14_Witness ==
    /\ last.action = "transcript" /\ ~last.event.is_final
    /\ out = << TranscriptMsg(last.event) >>

\* C15: when the backend request of a "complete" fails, the client is sent
\* an error message; no request is made but the one a "complete" makes when
\* it is received (nothing is retried); and once no handler is in progress
\* on the session it is Closed and is not the connection handler's session.
C15_BackendFailureStillCloses ==
    [][ /\ \A t \in tasks :
              ( /\ StepOf(t) /\ t.pc = "post"
                /\ obs'[t.sid].backendFailed /\ ~obs[t.sid].backendFailed
                /\ ws = "open" )
              => /\ Len(out') = 1 /\ out'[1].type = "error"
                 /\ posted' = << >>
        /\ posted' # << >> => (nmsg' = nmsg + 1 /\ last'.action = "complete")
        /\ \A s \in Sessions :
              (obs'[s].backendFailed /\ \A t \in tasks' : t.sid # s)
              => /\ ~sess'[s].sessionActive /\ ~sess'[s].room
                 /\ ~sess'[s].dgConnection /\ ~HoldsLive(s)'
                 /\ session' # s
      ]_vars

\* the request of a "complete" failed, the error was sent, and the handler
\* has finished with the session torn down
C15_Witness ==
    \E s \in Sessions :
       /\ obs[s].backendFailed /\ Quiet(s)
       /\ obs[s].posts = 1
       /\ Closed(s) /\ session = 0 /\ ws = "open"

\* the handler invocation t after this step
After(t) == {u \in tasks' : u.id = t.id /\ u.kind = t.kind}

\* C16: a session_complete message is sent only by the step in which a
\* backend request succeeded, with the interviewId of the response; and the
\* handling of a "complete" for a session with accumulated words sends the
\* client exactly one message, a session_complete or an error (the socket
\* being open): one when the request settles and none in its other steps.
C16_OneReplyPerComplete ==
    [][ /\ \A i \in 1..Len(out') :
              out'[i].type = "session_complete"
              => /\ out'[i].interviewId = InterviewId
                 /\ \E t \in tasks :
                       /\ StepOf(t) /\ t.kind = "complete" /\ t.pc = "post"
                       /\ \A u \in After(t) : "post" \notin u.failed
        /\ \A t \in tasks :
              (StepOf(t) /\ t.kind = "complete" /\ ~t.empty /\ ws = "open")
              => IF t.pc = "post"
                 THEN /\ Len(out') = 1
                      /\ out'[1].type \in {"session_complete", "error"}
                 ELSE out' = << >>
      ]_vars

\* start() of session s fails in this step: room.connect() rejected, or the
\* Deepgram connection could not be created
StartFails(t) ==
    /\ StepOf(t) /\ t.kind = "start" /\ t.pc = "connect"
    /\ \A u \in After(t) : u.pc \in CleanupPcs

\* session s has a live LiveKit room or a live Deepgram connection
LiveResources(s) ==
    room[s] \in {"connecting", "connected"} \/ dg[s] \in {"connecting", "open"}

\* C17: when room.connect() or the creation of the Deepgram connection fails
\* in start(), the client is sent an error message; when start() returns
\* from its catch block the session is inactive with no live LiveKit room and
\* no live Deepgram connection; and neither connection is attempted again.
C17_SetupFailureTearsDown ==
    [][ /\ \A t \in tasks :
              (StartFails(t) /\ ws = "open")
              => Len(out') = 1 /\ out'[1].type = "error"
        /\ \A t \in tasks :
              (StepOf(t) /\ t.kind = "start" /\ t.pc = "cleaned")
              => /\ ~sess'[t.sid].sessionActive
                 /\ ~LiveResources(t.sid)'
        /\ \A s \in Sessions :
              /\ room'[s] = "connecting" => room[s] \in {"new", "connecting"}
              /\ dg'[s] = "connecting" => dg[s] \in {"none", "connecting"}
      ]_vars

\* C18: a "complete" received while the handler's session variable is null
\* is answered, on an open connection, with one message of type error; the
\* handler leaves the connection as it was (an open one stays open), nothing
\* is posted to the backend, no handler is left in progress and no session's
\* state, room or Deepgram connection changes.
C18_CompleteWithoutSession ==
    [][ (last' = CompleteMsg /\ session = 0)
        => /\ ws = "open" => (Len(out') = 1 /\ out'[1].type = "error")
           /\ ws' = ws
           /\ posted' = << >>
           /\ tasks' = tasks
           /\ session' = 0
           /\ UNCHANGED <<sess, room, dg, obs>>
      ]_vars

\* a complete answered so after an earlier session was started and stopped
C18_Witness ==
    /\ last = CompleteMsg /\ session = 0 /\ ws = "open"
    /\ out = << Msg("error", "No active session to complete") >>
    /\ \E s \in Sessions : room[s] = "closed"

\* the pairs of consecutive words (i - 1, i) whose gap is above the threshold
PauseIdx(w) ==
    {i \in 2..Len(w) : w[i].start - w[i - 1].end > PAUSE_THRESHOLD}

\* C19: the pauses of a posted summary are, in word order, exactly the pairs
\* of consecutive words whose gap (next start minus previous end) is
\* strictly greater than 1.2 s -- a gap equal to 1.2 s gives none -- and each
\* event has the previous word's end as timestamp and the gap as duration.
C19_PausesAreTheGapsAboveThreshold ==
    \A k \in 1..Len(posted) :
        LET w == posted[k].sessionData.words
            p == posted[k].sessionData.pauses
        IN /\ Len(p) = Cardinality(PauseIdx(w))
           /\ \E f \in [1..Len(p) -> PauseIdx(w)] :
                 /\ \A a, b \in 1..Len(p) : a < b => f[a] < f[b]
                 /\ \A a \in 1..Len(p) :
                       /\ p[a].timestamp = w[f[a] - 1].end
                       /\ p[a].duration = w[f[a]].start - w[f[a] - 1].end

SetMin(S) == CHOOSE x \in S : \A y \in S : x <= y
SetMax(S) == CHOOSE x \in S : \A y \in S : x >= y

\* the windows of session c, numbered from 0: window k starts k * 30 s after
\* the session's start, and there is one for every such start before its end
PaceWindows(c) ==
    {k \in 0..((c.endTime - c.startTime) \div PACE_SEGMENT_INTERVAL) :
        k * PACE_SEGMENT_INTERVAL < c.endTime - c.startTime}

\* the words of session c that lie fully inside window k
WindowIdx(c, k) ==
    {i \in 1..Len(c.allWords) :
        /\ c.allWords[i].start >= c.startTime + k * PACE_SEGMENT_INTERVAL
        /\ c.allWords[i].end <= c.startTime + (k + 1) * PACE_SEGMENT_INTERVAL}

\* wpm is exactly 60 * n / span (span in milliseconds)
WpmExact(wpm, n, span) == span > 0 /\ wpm * span = 60000 * n

\* wpm is 60 * n / span rounded to the nearest integer (halves upwards), and
\* 0 when the span is 0
WpmRounded(wpm, n, span) ==
    IF span = 0 THEN wpm = 0
    ELSE /\ 2 * wpm * span - span <= 120000 * n
         /\ 120000 * n < 2 * wpm * span + span

\* timeline tl has, in order, one point for each window of c with a word
\* fully inside it and none for the other windows, the wpm of a point being
\* the rounded or the exact one for the count and span of the window's words
PaceTimelineIs(c, tl, rounded) ==
    LET full == {k \in PaceWindows(c) : WindowIdx(c, k) # {}} IN
    /\ Len(tl) = Cardinality(full)
    /\ \E f \in [1..Len(tl) -> full] :
          /\ \A a, b \in 1..Len(tl) : a < b => f[a] < f[b]
          /\ \A a \in 1..Len(tl) :
                LET idx == WindowIdx(c, f[a])
                    span == c.allWords[SetMax(idx)].end - c.allWords[SetMin(idx)].start
                IN /\ tl[a].segmentStart = c.startTime + f[a] * PACE_SEGMENT_INTERVAL
                   /\ tl[a].segmentEnd = tl[a].segmentStart + PACE_SEGMENT_INTERVAL
                   /\ IF rounded THEN WpmRounded(tl[a].wpm, Cardinality(idx), span)
                                 ELSE WpmExact(tl[a].wpm, Cardinality(idx), span)

\* C20 (as stated): the pace timeline of a posted summary has one point for
\* each 30-second window, counted from the session's start, that contains a
\* word lying fully inside it, with wpm = 60 * (number of such words) /
\* (end of the last - start of the first), and no point for any other window.
C20_PaceIsSixtyTimesCountOverSpan ==
    \A k \in 1..Len(posted) :
        PaceTimelineIs(sess[session], posted[k].sessionData.paceTimeline, FALSE)

\* C20 (amended): the same, with wpm the quotient rounded to the nearest
\* integer, and 0 when the window's words span no time.
C20_PaceIsRoundedCountOverSpan ==
    \A k \in 1..Len(posted) :
        PaceTimelineIs(sess[session], posted[k].sessionData.paceTimeline, TRUE)

\* a summary over three windows of which the middle one has no word and the
\* last has a quotient that is not an integer (one word of 0.7 s: 86)
C20_Witness ==
    /\ Len(posted) = 1
    /\ Cardinality(PaceWindows(sess[session])) = 3
    /\ WindowIdx(sess[session], 1) = {}
    /\ Len(posted[1].sessionData.paceTimeline) = 2
    /\ ~WpmExact(posted[1].sessionData.paceTimeline[2].wpm, 1, 700)
    /\ posted[1].sessionData.paceTimeline[2].wpm = 86

\* summary k of the step's request has a FillerEvent for its i-th word
FillerReported(k, i) ==
    \E a \in 1..Len(posted[k].sessionData.fillers) :
        /\ posted[k].sessionData.fillers[a].word = posted[k].sessionData.words[i].word
        /\ posted[k].sessionData.fillers[a].timestamp = posted[k].sessionData.words[i].start

\* C21: filler detection ignores letter case and repeated letters: "Um",
\* "UM" and "ummmm" normalize to the same token ("um"), and each of them,
\* as a word of the session, is a filler word and is reported in the summary.
C21_UmInAnyCaseAndLength ==
    \A k \in 1..Len(posted) :
        \A i \in 1..Len(posted[k].sessionData.words) :
            LET token == posted[k].sessionData.words[i].word IN
            token \in {"Um", "UM", "ummmm"}
            => /\ normalizeToken(token) = normalizeToken("um")
               /\ isFillerWord(token)
               /\ FillerReported(k, i)

\* a summary of the utterance "Um UM ummmm"
C21_Witness ==
    /\ Len(posted) = 1
    /\ posted[1].sessionData.transcript = "Um UM ummmm"
    /\ Len(posted[1].sessionData.fillers) = 3

\* the entries of the filler list that are one word
SingleWordFillers == {w \in FILLER_WORDS : ~CharIn(" ", w)}

\* C22: every one-word entry of the filler list ("actually", "basically",
\* "literally", "well", "really", ...) is detected when it occurs as a word
\* of the session, in any letter case: isFillerWord is true for it and the
\* summary has a FillerEvent for the occurrence.
C22_SingleWordFillersDetected ==
    \A k \in 1..Len(posted) :
        \A i \in 1..Len(posted[k].sessionData.words) :
            LET token == posted[k].sessionData.words[i].word IN
            toLowerCase(token) \in {toLowerCase(w) : w \in SingleWordFillers}
            => isFillerWord(token) /\ FillerReported(k, i)

\* C23: when consecutive words of the session normalize to a multi-word
\* member of the filler set ("you" followed by "know"), the summary has a
\* FillerEvent for that phrase, starting at the first of these words.
C23_PhrasesAcrossWordsDetected ==
    \A k \in 1..Len(posted) :
        LET w == posted[k].sessionData.words
            f == posted[k].sessionData.fillers
        IN \A i \in 1..Len(w), j \in 1..Len(w) :
              LET phrase == normalizeToken(join(wordsOf(w, i, j))) IN
              (i < j /\ phrase \in FILLER_SET)
              => \E a \in 1..Len(f) :
                    /\ f[a].timestamp = w[i].start
                    /\ normalizeToken(f[a].word) = phrase

\* the a-th smallest element of the set of numbers S
Nth(S, a) == CHOOSE i \in S : Cardinality({j \in S : j < i}) = a - 1

\* C24: the summary has exactly one FillerEvent for each word that is a
\* filler match, in word order; the event of the word at position i has the
\* word's start as timestamp, the (unnormalized) words at the up to 5
\* positions before i as contextBefore and those at the up to 5 positions
\* after i as contextAfter, never reaching outside the words of the session.
C24_OneEventPerMatchWithContext ==
    \A k \in 1..Len(posted) :
        LET w == posted[k].sessionData.words
            f == posted[k].sessionData.fillers
            n == Len(w)
            matches == {i \in 1..n : isFillerWord(w[i].word)}
        IN /\ Len(f) = Cardinality(matches)
           /\ \A a \in 1..Len(f) :
                 LET i == Nth(matches, a)
                     lo == IF i - 5 > 1 THEN i - 5 ELSE 1
                     hi == IF i + 5 < n THEN i + 5 ELSE n
                 IN /\ f[a].word = w[i].word
                    /\ f[a].timestamp = w[i].start
                    /\ f[a].contextBefore = join([x \in 1..(i - lo) |-> w[lo + x - 1].word])
                    /\ f[a].contextAfter = join([x \in 1..(hi - i) |-> w[i + x].word])

\* the summary of "um I I I I I um": the contexts of both fillers are the
\* five words between them, and neither contains the other filler
C24_Witness ==
    /\ Len(posted) = 1
    /\ posted[1].sessionData.transcript = "um I I I I I um"
    /\ Len(posted[1].sessionData.fillers) = 2
    /\ posted[1].sessionData.fillers[1].contextBefore = ""
    /\ posted[1].sessionData.fillers[1].contextAfter = "I I I I I"
    /\ posted[1].sessionData.fillers[2].contextBefore = "I I I I I"
    /\ posted[1].sessionData.fillers[2].contextAfter = ""

\* C25: for the accumulated words ("I", 0.0, 0.2), ("um", 0.3, 0.5),
\* ("think", 1.9, 2.1) the summary has exactly one FillerEvent ("um" at
\* 0.3), exactly one PauseEvent (duration 1.4, timestamp 0.5) and
\* averagePace 86.
C25_EndToEndScenario ==
    \A k \in 1..Len(posted) :
        posted[k].sessionData.words = << WordI, W1, WordThink >>
        => /\ Len(posted[k].sessionData.fillers) = 1
           /\ posted[k].sessionData.fillers[1].word = "um"
           /\ posted[k].sessionData.fillers[1].timestamp = 300
           /\ posted[k].sessionData.pauses = << [duration |-> 1400, timestamp |-> 500] >>
           /\ posted[k].sessionData.averagePace = 86

\* the summary of these three words has been posted
C25_Witness ==
    /\ Len(posted) = 1
    /\ posted[1].sessionData.words = << WordI, W1, WordThink >>
    /\ posted[1].sessionData.totalWords = 3

\* C26: averagePace of a posted summary is the number of accumulated words
\* divided by the session's duration in seconds (end timestamp minus start
\* timestamp), times 60, rounded to the nearest integer, and 0 when the
\* duration is zero; totalWords is the number of accumulated words.
C26_AveragePaceAndTotalWords ==
    \A k \in 1..Len(posted) :
        LET c == sess[session] IN
        /\ posted[k].sessionData.totalWords = Len(c.allWords)
        /\ posted[k].sessionData.words = c.allWords
        /\ WpmRounded(posted[k].sessionData.averagePace, Len(c.allWords),
                      c.endTime - c.startTime)

\* the summary of "um" (0.3 - 0.5) and "like" (1.704 - 2.004): two words in
\* 1.704 s are 70.4 words per minute
C26_Witness ==
    /\ Len(posted) = 1
    /\ posted[1].sessionData.words = << W1, WordLike >>
    /\ sess[session].endTime - sess[session].startTime = 1704
    /\ posted[1].sessionData.averagePace = 70

\* C27: a frame is forwarded to the Deepgram connection only when it comes
\* from an audio track published by the participant whose identity is the
\* session's participantIdentity; frames of other participants' tracks and
\* of video tracks are never forwarded.
C27_OnlyNamedParticipantsAudio ==
    (last.action = "frame" /\ last.forwarded)
    => /\ last.track.kind = "audio"
       /\ last.track.participant = sess[last.sid].participantIdentity

\* a frame is forwarded while all tracks of the room are subscribed
C27_Witness ==
    /\ last.action = "frame" /\ last.forwarded
    /\ {x[2] : x \in {y \in audio.subscribed : y[1] = last.sid}} = Tracks

\* session s is Active: started, with its Deepgram connection
Active(s) == sess[s].sessionActive /\ sess[s].dgConnection

\* C28: every frame of the named participant's audio track that arrives
\* while the session is Active is forwarded to the Deepgram connection,
\* whenever the track was subscribed (also when that was while start() was
\* in progress and a frame arrived before the session was Active).
C28_EveryFrameWhileActiveForwarded ==
    [][ (/\ last'.action = "frame"
         /\ last'.track.kind = "audio"
         /\ last'.track.participant = sess[last'.sid].participantIdentity
         /\ Active(last'.sid))
        => last'.forwarded
      ]_vars

\* the backend request of a "complete" on session s is in flight before and
\* after this step
PostInFlight(s) ==
    \E t \in tasks \cap tasks' : t.kind = "complete" /\ t.pc = "post" /\ t.sid = s

\* C30: while the backend request of a "complete" is in flight, cleanup()
\* is not called on the session and the session stays as active as it was
\* (its resources are released only after the request has settled and the
\* outcome was reported), also when a "stop" or the client's disconnect
\* arrives in the meantime.
C30_NoTeardownBeforeBackendSettles ==
    [][ \A s \in Sessions :
           PostInFlight(s)
           => /\ ~CleanupCalledOn(s)
              /\ sess[s].sessionActive => sess'[s].sessionActive
      ]_vars

\* session s is the same before and after this step: its fields (lifecycle
\* flag, references, accumulated words and segments) and its resources
Untouched(s) == sess'[s] = sess[s] /\ room'[s] = room[s] /\ dg'[s] = dg[s]

\* C29: sessions of different connections are isolated: a step of one
\* connection (a control message, a recognition event, a failure or a
\* teardown of its session) leaves every session of the other connection,
\* and the other connection's handler state, unchanged.
C29_SessionsIsolated ==
    [][ IF last'.action = "peer"
        THEN /\ \A s \in Own : Untouched(s)
             /\ UNCHANGED <<ws, session, tasks>>
        ELSE /\ \A s \in peer.owned : Untouched(s)
             /\ UNCHANGED peer
      ]_vars

\* the second connection has torn its session down, and the first one's
\* session is Active with its word, its room and its Deepgram connection
C29_Witness ==
    /\ last.action = "peer"
    /\ peer.session = 0 /\ peer.owned # {}
    /\ \A s \in peer.owned : Closed(s) /\ Len(sess[s].allWords) > 0
    /\ session # 0 /\ session \in Own
    /\ sess[session].sessionActive /\ HoldsLive(session)
    /\ Len(sess[session].allWords) > 0

\* session s was Active and has left that state: cleanup() closed the
\* Deepgram connection start() had created
LeftActive(s) == obs[s].requestClose > 0 /\ ~Active(s)

\* C31: no frame is sent to the Deepgram connection of a session that is
\* not Active (sessionActive false or dgConnection cleared), and the first
\* frame that reaches a forwarding loop of such a session ends the loop.
C31_NoFrameAfterActiveAndLoopEnds ==
    (last.action = "frame" /\ ~Active(last.sid))
    => /\ ~last.forwarded
       /\ <<last.sid, last.track>> \notin audio.loops

\* a frame reaches a running loop of a session that has left Active
C31_Witness ==
    /\ last.action = "frame" /\ last.ran
    /\ LeftActive(last.sid)
    /\ ~last.forwarded

\* the forwarding loops of session s that are running
LoopsOf(s) == {x \in audio.loops : x[1] = s}

\* C32: a session never has more than one live Deepgram connection (dg[s]
\* is the one connection start() creates) and never more than one forwarding
\* loop running at a time, however many times TrackSubscribed fires for the
\* named participant's audio.
C32_OneConnectionOneLoop ==
    \A s \in Sessions : Cardinality(LoopsOf(s)) <= 1

\* the last element of a non-empty sequence
Last(q) == q[Len(q)]

\* C33: startTime is set once, by the first final event with words, to the
\* start of that event's first word, and never changes afterwards; endTime
\* is the end of the last word of the segment accumulated last; both are
\* unset exactly when no word has been accumulated.
C33_StartSetOnceEndFollowsLastSegment ==
    [][ \A s \in Sessions :
          LET c == sess[s]
              d == sess'[s]
          IN /\ c.startTime # Null => d.startTime = c.startTime
             /\ (c.startTime = Null /\ d.startTime # Null)
                => /\ last'.action = "transcript" /\ last'.sid = s
                   /\ last'.event.is_final /\ Len(last'.event.words) > 0
                   /\ c.segments = << >>
                   /\ d.startTime = last'.event.words[1].start
             /\ d.segments # << >>
                => d.endTime = Last(Last(d.segments).words).end
             /\ (d.startTime = Null) = (d.allWords = << >>)
             /\ (d.endTime = Null) = (d.allWords = << >>)
      ]_vars

\* a second segment was accumulated by a session whose first word started
\* at time 0
C33_Witness ==
    \E s \in Sessions :
       /\ Len(sess[s].segments) = 2
       /\ sess[s].startTime = 0
       /\ sess[s].endTime = Last(sess[s].segments[2].words).end
       /\ sess[s].endTime > sess[s].segments[1].endTime

\* the cause for which a request is refused, of the causes the failure
\* reasons are meant to tell apart ("other": another cause, or none)
FailureCause(req) ==
    CASE req.token # "given" -> "missing_credential"
      [] req.fault = "expired" -> "expired"
      [] req.fault \in {"malformed", "bad_signature"} -> "malformed_signature"
      [] req.fault = "not_before" -> "not_yet_valid"
      [] req.fault = "none" /\ (\/ Falsy(req.userId) \/ Falsy(req.roomName)
                                \/ Falsy(req.participantIdentity)) -> "missing_claims"
      [] OTHER -> "other"

\* the failure reason logged for request req
ReasonLogged(req) == authenticateWebSocket(GatePending(req)).reason

\* C34: a request refused for one of the causes missing credential, expired
\* token, malformed signature, not-yet-valid token, missing claims gets the
\* 401 response and a destroyed socket, and the reason logged for it is not
\* the reason logged for a request refused for another of these causes.
C34_DistinctReasonsSameOutcome ==
    (gate.socket # "pending" /\ FailureCause(gate.request) # "other")
    => /\ gate.written = << Unauthorized401 >>
       /\ gate.socket = "destroyed"
       /\ \A req \in UpgradeRequests :
             FailureCause(req) \notin {"other", FailureCause(gate.request)}
             => ReasonLogged(req) # gate.reason

\* session s has been torn down: a cleanup() has run to its end, no handler
\* invocation is in progress on it and it holds nothing
TornDown(s) == Closed(s) /\ Quiet(s) /\ obs[s].settled

\* C35: a "complete" received when the handler's session has been torn down
\* (for instance by the room's Disconnected event) builds no summary and
\* posts nothing to the backend for that session.
C35_TornDownSessionIsTerminal ==
    [][ (last' = CompleteMsg /\ session # 0 /\ TornDown(session))
        => /\ posted' = << >>
           /\ obs'[session].summaries = obs[session].summaries
           /\ obs'[session].posts = obs[session].posts
      ]_vars

\* the messages of type ty among ms
OfType(ms, ty) == SelectSeq(ms, LAMBDA m : m.type = ty)

\* C36: "started" is sent only by a "start" whose start() succeeded, leaving
\* the session Active; a "start" whose start() failed (it returns from its
\* catch block) sends no "started" and does not leave the failed session in
\* the handler's session variable.
C36_StartedOnlyAfterSuccessfulStart ==
    [][ /\ OfType(out', "started") # << >>
           => \E t \in tasks :
                 /\ StepOf(t) /\ t.kind = "start" /\ t.pc = "start_ret"
                 /\ Active(t.sid)'
        /\ \A t \in tasks :
              (StepOf(t) /\ t.kind = "start" /\ t.pc = "cleaned")
              => /\ OfType(out', "started") = << >>
                 /\ session' # t.sid
      ]_vars

\* C37: for each session room.disconnect() is invoked at most once and
\* dgConnection.requestClose() at most once, also when cleanup() calls
\* overlap.
C37_CloseOperationsAtMostOnce ==
    \A s \in Sessions : obs[s].disconnect <= 1 /\ obs[s].requestClose <= 1

\* C38: a recognition event that arrives for a session after its cleanup()
\* has run changes none of allWords, segments, startTime, endTime and is
\* not forwarded to the client.
C38_NoEventHandledAfterCleanup ==
    [][ \A s \in Sessions :
          (ReceivesEvent(s) /\ TornDown(s))
          => /\ Accumulated(sess'[s]) = Accumulated(sess[s])
             /\ out' = << >>
      ]_vars

\* C39: every processed "stop" sends "stopped": at once when the handler
\* has no session, else when the cleanup() it awaits has finished and not
\* before; after that step the handler's session variable is null, and a
\* "complete" received with it null is rejected with "No active session
\* to complete".
C39_StoppedAfterCleanupThenCompleteRejected ==
    [][ /\ (last' = StopMsg /\ ws = "open")
           => IF session = 0
              THEN out' = << Msg("stopped", "Transcription session stopped") >>
              ELSE out' = << >>
        /\ \A t \in tasks :
              (StepOf(t) /\ t.kind = "stop")
              => IF t.pc = "cleaned"
                 THEN /\ ws = "open"
                         => out' = << Msg("stopped", "Transcription session stopped") >>
                      /\ session' = 0
                 ELSE /\ OfType(out', "stopped") = << >>
                      /\ \E u \in tasks' : u.id = t.id /\ u.kind = "stop"
        /\ OfType(out', "stopped") # << >>
           => \/ last' = StopMsg /\ session = 0
              \/ \E t \in tasks : StepOf(t) /\ t.kind = "stop" /\ t.pc = "cleaned"
        /\ (last' = CompleteMsg /\ session = 0 /\ ws = "open")
           => out' = << Msg("error", "No active session to complete") >>
      ]_vars

\* a "complete" is rejected after a "stop" tore down a session whose room
\* had to be disconnected
C39_Witness ==
    /\ last = CompleteMsg /\ out = noSessionReply
    /\ session = 0
    /\ \E s \in Sessions : obs[s].stopActed /\ obs[s].disconnect > 0 /\ Closed(s)

\* the number of words calculatePaceTimeline counts in the windows from
\* offset t on: the sum of segWords.length over the turns of its loop
RECURSIVE countedWords(_, _)
countedWords(c, t) ==
    IF t >= c.endTime - c.startTime THEN 0
    ELSE Len(segWords(c, c.startTime + t))
         + countedWords(c, t + PACE_SEGMENT_INTERVAL)

\* C40: in the pace timeline of a posted summary every accumulated word is
\* counted in at most one 30-second window, so the windows' word counts sum
\* to at most the number of words; also for words of length zero that lie
\* on a window boundary.
C40_WordInAtMostOneWindow ==
    posted # << >>
    => LET c == sess[session] IN
       /\ \A i \in 1..Len(c.allWords) :
             Cardinality({k \in PaceWindows(c) : i \in WindowIdx(c, k)}) <= 1
       /\ countedWords(c, 0) <= Len(c.allWords)

====
